---- MODULE Spec2Model ----
(***************************************************************************)
(* A model of npm-registry-analytics: the RequestService (one HTTP GET     *)
(* with a bounded, fixed-delay retry driven by one per-instance counter)   *)
(* and the NpmDownloadCountClient facade that builds one path per package, *)
(* dispatches the requests through Promise.all and validates each          *)
(* response against the point or the range schema.                         *)
(*                                                                         *)
(* Every asynchronous continuation of the code is one action: the          *)
(* synchronous prefix of request() up to `await fetch`, the code that runs *)
(* when the fetch settles, the code that runs when the retry timer fires,  *)
(* and the code that runs when response.json() settles.  Promise           *)
(* reactions (the join of Promise.all, the facade's catch) are microtasks  *)
(* and run inside the action that settles the promise they wait for.       *)
(***************************************************************************)
EXTENDS Integers, Sequences, FiniteSets, TLC

\* ---------------------------------------------------------------- bounds
MaxCalls == 2
MaxMaxRetries == 2
MaxClientRetries == 1
MaxPackages == 2

Calls == 1..MaxCalls

\* The maxRetries values a RequestService is constructed with.
MaxRetriesConfigs == 0..MaxMaxRetries

\* ------------------------------------------------------------ JSON values
\* A JSON value is [kind, text, members]: text is the literal of a scalar,
\* members maps the keys of an object (the indices "0", "1", .. of an
\* array) to values.
NoMembers == [k \in {} |-> 0]

Undefined == [kind |-> "undefined", text |-> "", members |-> NoMembers]

JString(s) == [kind |-> "string", text |-> s, members |-> NoMembers]

JNumber(s) == [kind |-> "number", text |-> s, members |-> NoMembers]

JObject(m) == [kind |-> "object", text |-> "", members |-> m]

JArray(m) == [kind |-> "array", text |-> "", members |-> m]

JNull == [kind |-> "null", text |-> "", members |-> NoMembers]

\* obj[key] in JavaScript: undefined when the key is absent.
Get(obj, key) == IF key \in DOMAIN obj.members THEN obj.members[key] ELSE Undefined

\* ------------------------------------------------------------------ errors
\* An Error object: cause and issues are sequences so that an absent cause
\* is <<>>.
MkError(name, message, issues, cause) ==
    [name |-> name, message |-> message, issues |-> issues, cause |-> cause]

MaxRetriesExceededError ==
    MkError("Error", "API endpoint failed to provide a valid response, max retries exceeded", <<>>, <<>>)

BadStatusError(status) ==
    MkError("Error", "API endpoint returned status code " \o ToString(status), <<>>, <<>>)

\* What response.json() rejects with on a body that is no JSON text.
JsonSyntaxError == MkError("SyntaxError", "Unexpected token in JSON", <<>>, <<>>)

\* Mutant: a body that is no JSON is reported as a bad status.
NonJSONErrorAsStatus == BadStatusError(200)

NonJSONError ==
    MkError("Error", "API endpoint returned a non JSON response", <<>>, <<JsonSyntaxError>>)

\* What undici's fetch rejects with when the transport fails.
FetchFailedError == MkError("TypeError", "fetch failed", <<>>, <<>>)

NotImplementedError == MkError("Error", "Method not implemented.", <<>>, <<>>)

\* -------------------------------------------------------- promise outcomes
Pending == [state |-> "pending", value |-> Undefined, error |-> <<>>]

Fulfilled(v) == [state |-> "fulfilled", value |-> v, error |-> <<>>]

Rejected(e) == [state |-> "rejected", value |-> Undefined, error |-> <<e>>]

\* ------------------------------------------------------------ HTTP replies
RetriableCodes == {500, 502, 503, 504}

\* response.ok
IsOk(status) == status >= 200 /\ status <= 299

NoReply == [kind |-> "none", status |-> 0, json |-> FALSE, value |-> Undefined]

\* The fetch settles with a response of the given status, whose body is the
\* JSON text of value when json holds and is no JSON text otherwise.
Response(status, json, value) ==
    [kind |-> "response", status |-> status, json |-> json, value |-> value]

\* The fetch rejects: the HTTP call itself throws.
FetchThrows == [kind |-> "throw", status |-> 0, json |-> FALSE, value |-> Undefined]

\* ------------------------------------------------------- response schemas
\* A schema is [type, shape, element]: shape lists the keys of an object
\* schema in declaration order, element holds the schema of an array's
\* items.
ZString == [type |-> "string", shape |-> <<>>, element |-> <<>>]

ZNumber == [type |-> "number", shape |-> <<>>, element |-> <<>>]

ZObject(shape) == [type |-> "object", shape |-> shape, element |-> <<>>]

ZArray(element) == [type |-> "array", shape |-> <<>>, element |-> <<element>>]

NpmAPIPointResponseSchema ==
    ZObject(<< <<"package", ZString>>, <<"downloads", ZNumber>>,
               <<"start", ZString>>, <<"end", ZString>> >>)

NpmAPIRangeResponseSchema ==
    ZObject(<< <<"package", ZString>>, <<"start", ZString>>, <<"end", ZString>>,
               <<"downloads", ZArray(ZObject(<< <<"downloads", ZNumber>>,
                                                <<"day", ZString>> >>))>> >>)

\* The number of items of an array value.
ArrayLength(v) == Cardinality(DOMAIN v.members)

PathJoin(path, key) == IF path = "" THEN key ELSE path \o "." \o key

RECURSIVE ZodIssues(_, _, _)
RECURSIVE ZodShapeIssues(_, _, _, _)
RECURSIVE ZodItemIssues(_, _, _, _)
\* The issues schema.parse(v) collects, in schema order: a value of the
\* wrong type is one invalid_type issue at its path, an object or an array
\* of the right type contributes the issues of all its keys or items.
ZodIssues(schema, v, path) ==
    IF v.kind # schema.type
    THEN << [code |-> "invalid_type", path |-> path,
             expected |-> schema.type, received |-> v.kind] >>
    ELSE IF schema.type = "object" THEN ZodShapeIssues(schema.shape, v, path, 1)
    ELSE IF schema.type = "array" THEN ZodItemIssues(schema.element[1], v, path, 0)
    ELSE <<>>

\* Mutant: parse stops at the first key of the shape that has an issue.
ZodShapeIssuesFirstOnly(shape, v, path, i) ==
    LET of(j) == ZodIssues(shape[j][2], Get(v, shape[j][1]), PathJoin(path, shape[j][1]))
        bad == {j \in i..Len(shape) : of(j) # <<>>}
    IN  IF bad = {} THEN <<>> ELSE of(CHOOSE j \in bad : \A k \in bad : j <= k)

ZodShapeIssues(shape, v, path, i) ==
    IF i > Len(shape) THEN <<>>
    ELSE ZodIssues(shape[i][2], Get(v, shape[i][1]), PathJoin(path, shape[i][1]))
         \o ZodShapeIssues(shape, v, path, i + 1)

ZodItemIssues(element, v, path, i) ==
    IF i >= ArrayLength(v) THEN <<>>
    ELSE ZodIssues(element, Get(v, ToString(i)), PathJoin(path, ToString(i)))
         \o ZodItemIssues(element, v, path, i + 1)

\* Mutant: parse returns the value it was given, unknown keys included.
ZodOutputPassthrough(schema, v) == v

RECURSIVE ZodOutput(_, _)
\* What schema.parse(v) returns for a value without issues: an object
\* schema keeps the keys of its shape and strips every other key.
ZodOutput(schema, v) ==
    IF schema.type = "object"
    THEN JObject([k \in {schema.shape[i][1] : i \in 1..Len(schema.shape)} |->
                    LET i == CHOOSE j \in 1..Len(schema.shape) : schema.shape[j][1] = k
                    IN  ZodOutput(schema.shape[i][2], Get(v, k))])
    ELSE IF schema.type = "array"
    THEN JArray([k \in DOMAIN v.members |-> ZodOutput(schema.element[1], v.members[k])])
    ELSE v

ZodError(issues) == MkError("ZodError", "", issues, <<>>)

ValidationError(issues) ==
    MkError("ValidationError", "Object shape is not valid.", issues, <<ZodError(issues)>>)

\* #parseObjectWithSchema: [ok, value, error].
parseObjectWithSchema(schema, object) ==
    LET issues == ZodIssues(schema, object, "")
    IN  IF issues = <<>>
        THEN [ok |-> TRUE, value |-> ZodOutput(schema, object), error |-> <<>>]
        ELSE [ok |-> FALSE, value |-> Undefined, error |-> <<ValidationError(issues)>>]

\* ------------------------------------------------------------------ dates
\* A Date is [valid, time]: time counts the hours since 1970-01-01T00:00Z
\* (the facade reads calendar fields only, so the hour is the finest unit
\* it can observe); valid is FALSE for an Invalid Date.
InvalidDate == [valid |-> FALSE, time |-> 0]

MkDate(hours) == [valid |-> TRUE, time |-> hours]

\* Days since 1970-01-01 of the proleptic Gregorian date y-m-d.
DaysFromCivil(y, m, d) ==
    LET yy == IF m <= 2 THEN y - 1 ELSE y
        era == yy \div 400
        yoe == yy - era * 400
        mp == IF m > 2 THEN m - 3 ELSE m + 9
        doy == (153 * mp + 2) \div 5 + d - 1
        doe == yoe * 365 + yoe \div 4 - yoe \div 100 + doy
    IN  era * 146097 + doe - 719468

\* The Gregorian date [year, month, day] of a count of days since 1970-01-01.
CivilFromDays(z) ==
    LET zz == z + 719468
        era == zz \div 146097
        doe == zz - era * 146097
        yoe == (doe - doe \div 1460 + doe \div 36524 - doe \div 146096) \div 365
        doy == doe - (365 * yoe + yoe \div 4 - yoe \div 100)
        mp == (5 * doy + 2) \div 153
        d == doy - (153 * mp + 2) \div 5 + 1
        m == IF mp < 10 THEN mp + 3 ELSE mp - 9
        y == yoe + era * 400
    IN  [year |-> IF m <= 2 THEN y + 1 ELSE y, month |-> m, day |-> d]

IsLeapYear(y) == y % 400 = 0 \/ (y % 4 = 0 /\ y % 100 # 0)

DaysInMonth(y, m) ==
    IF m = 2 THEN (IF IsLeapYear(y) THEN 29 ELSE 28)
    ELSE IF m \in {4, 6, 9, 11} THEN 30 ELSE 31

\* The local calendar day (days since 1970-01-01) of a valid Date in a
\* time zone zone hours east of UTC.
LocalDay(date, zone) == (date.time + zone) \div 24

\* Local midnight of a local calendar day, as a Date.
LocalMidnight(day, zone) == MkDate(day * 24 - zone)

\* Date.getFullYear, getMonth and getDate read the local calendar date; of an
\* Invalid Date each is NaN.
DateGetFullYear(date, zone) == CivilFromDays(LocalDay(date, zone)).year

DateGetMonth(date, zone) == CivilFromDays(LocalDay(date, zone)).month - 1

DateGetDate(date, zone) == CivilFromDays(LocalDay(date, zone)).day

\* Date.getDay: 0 is Sunday; 1970-01-01 was a Thursday.
DateGetDay(date, zone) == (LocalDay(date, zone) + 4) % 7

\* `${n}` of a calendar field.
FieldText(date, n) == IF date.valid THEN ToString(n) ELSE "NaN"

\* --------------------------------------------------------- period inputs
\* What a caller passes as date, week, start or end: a Date object
\* (form "Date"), the string 'YYYY-MM-DD' (form "iso-date"), the string
\* 'YYYYWw' or 'YYYYWww' (form "iso-week", digits the number of week
\* digits), the string 'Ww' or 'Www' (form "week"), or a string that is
\* none of these (form "invalid").
Token(form, date, year, month, day, week, digits) ==
    [form |-> form, date |-> date, year |-> year, month |-> month,
     day |-> day, week |-> week, digits |-> digits]

DateToken(date) == Token("Date", date, 0, 0, 0, 0, 0)

IsoDateToken(y, m, d) == Token("iso-date", InvalidDate, y, m, d, 0, 0)

IsoWeekToken(y, w, digits) == Token("iso-week", InvalidDate, y, 0, 0, w, digits)

WeekToken(w, digits) == Token("week", InvalidDate, 0, 0, 0, w, digits)

InvalidToken == Token("invalid", InvalidDate, 0, 0, 0, 0, 0)

\* new Date(value): a Date is copied, a date-only ISO string is midnight
\* UTC of that day, any other string here is an Invalid Date.
NewDate(value) ==
    IF value.form = "Date" THEN value.date
    ELSE IF value.form = "iso-date"
            /\ value.month \in 1..12
            /\ value.day \in 1..DaysInMonth(value.year, value.month)
    THEN MkDate(DaysFromCivil(value.year, value.month, value.day) * 24)
    ELSE InvalidDate

\* date-fns dayOfISOWeekYear with day 0: the Monday of the ISO week, as a
\* count of days since 1970-01-01.
dayOfISOWeekYear(isoWeekYear, week) ==
    LET fourth == DaysFromCivil(isoWeekYear, 1, 4)
        dow == (fourth + 4) % 7
        fourthOfJanuaryDay == IF dow = 0 THEN 7 ELSE dow
    IN  fourth + (week - 1) * 7 + 1 - fourthOfJanuaryDay

\* date-fns parseISO of a string without a time or a zone: local midnight
\* of the day it names.  A date needs two digits of month and of day and a
\* day of that month, a week needs exactly two digits and 1..53; anything
\* else is an Invalid Date.
parseISO(value, zone) ==
    IF value.form = "iso-date"
       /\ value.month \in 1..12
       /\ value.day \in 1..DaysInMonth(value.year, value.month)
    THEN LocalMidnight(DaysFromCivil(value.year, value.month, value.day), zone)
    ELSE IF value.form = "iso-week" /\ value.digits = 2 /\ value.week \in 1..53
    THEN LocalMidnight(dayOfISOWeekYear(value.year, value.week), zone)
    ELSE InvalidDate

\* Mutant: the step back to the week start forgets the days that lie
\* before weekStartsOn in the week.
startOfWeekNoWrap(date, weekStartsOn, zone) ==
    IF ~date.valid THEN InvalidDate
    ELSE LocalMidnight(LocalDay(date, zone) - (DateGetDay(date, zone) - weekStartsOn), zone)

\* date-fns startOfWeek: local midnight of the last weekStartsOn day that
\* is not after the date.
startOfWeek(date, weekStartsOn, zone) ==
    IF ~date.valid THEN InvalidDate
    ELSE LET day == DateGetDay(date, zone)
             diff == (IF day < weekStartsOn THEN 7 ELSE 0) + day - weekStartsOn
         IN  LocalMidnight(LocalDay(date, zone) - diff, zone)

\* Mutant: the week ends with the first hour of the next week start.
endOfWeekExclusive(date, weekStartsOn, zone) ==
    IF ~date.valid THEN InvalidDate
    ELSE LET day == DateGetDay(date, zone)
             diff == (IF day < weekStartsOn THEN -7 ELSE 0) + 7 - (day - weekStartsOn)
         IN  LocalMidnight(LocalDay(date, zone) + diff, zone)

\* date-fns endOfWeek: the last hour (23:59:59.999) of the day before the
\* next weekStartsOn day.
endOfWeek(date, weekStartsOn, zone) ==
    IF ~date.valid THEN InvalidDate
    ELSE LET day == DateGetDay(date, zone)
             diff == (IF day < weekStartsOn THEN -7 ELSE 0) + 6 - (day - weekStartsOn)
         IN  MkDate(LocalMidnight(LocalDay(date, zone) + diff, zone).time + 23)

\* Mutant: a week number without a year is parsed as it is, the current
\* year is not put in front of it.
getStartAndEndDatesForWeekNoYear(week, startOfWeekOption, currentYear, zone) ==
    LET weekDate == IF week.form = "Date" THEN week.date ELSE parseISO(week, zone)
        weekStartsOn == IF startOfWeekOption = "sunday" THEN 0 ELSE 1
    IN  [startDate |-> startOfWeek(weekDate, weekStartsOn, zone),
         endDate |-> endOfWeek(weekDate, weekStartsOn, zone)]

\* #getStartAndEndDatesForWeek: week is a Date, a string that starts with
\* 'W' (prefixed with the current year before it is parsed) or any other
\* string (parsed as it is).
getStartAndEndDatesForWeek(week, startOfWeekOption, currentYear, zone) ==
    LET weekDate ==
            IF week.form = "Date" THEN week.date
            ELSE IF week.form = "week"
            THEN parseISO(IsoWeekToken(currentYear, week.week, week.digits), zone)
            ELSE parseISO(week, zone)
        weekStartsOn == IF startOfWeekOption = "sunday" THEN 0 ELSE 1
    IN  [startDate |-> startOfWeek(weekDate, weekStartsOn, zone),
         endDate |-> endOfWeek(weekDate, weekStartsOn, zone)]

\* ------------------------------------------------------------ request paths
\* `${date.DateGetFullYear()}-${date.DateGetMonth() + 1}-${date.DateGetDate()}`
FormatDate(date, zone) ==
    FieldText(date, DateGetFullYear(date, zone)) \o "-"
    \o FieldText(date, DateGetMonth(date, zone) + 1) \o "-"
    \o FieldText(date, DateGetDate(date, zone))

\* MakeRequestPathOptions: keyword is "" when absent, date, startDate and
\* endDate are <<>> when absent.
KeywordOptions(packages, requestType, keyword) ==
    [packages |-> packages, requestType |-> requestType, keyword |-> keyword,
     date |-> <<>>, startDate |-> <<>>, endDate |-> <<>>]

DateOptions(packages, requestType, date) ==
    [packages |-> packages, requestType |-> requestType, keyword |-> "",
     date |-> <<date>>, startDate |-> <<>>, endDate |-> <<>>]

RangeOptions(packages, requestType, startDate, endDate) ==
    [packages |-> packages, requestType |-> requestType, keyword |-> "",
     date |-> <<>>, startDate |-> <<startDate>>, endDate |-> <<endDate>>]

\* The when segment #makeRequestPaths derives from its options.
When(options, zone) ==
    IF options.keyword # "" THEN options.keyword
    ELSE IF options.date # <<>> THEN FormatDate(options.date[1], zone)
    ELSE FormatDate(options.startDate[1], zone) \o ":"
         \o FormatDate(options.endDate[1], zone)

\* Mutant: the type and the when segments change places.
makeRequestPathsSwapped(options, zone) ==
    [i \in 1..Len(options.packages) |->
        "/" \o When(options, zone) \o "/" \o options.requestType
        \o "/" \o options.packages[i]]

\* #makeRequestPaths: one path per package, in the order of packages.
makeRequestPaths(options, zone) ==
    [i \in 1..Len(options.packages) |->
        "/" \o options.requestType \o "/" \o When(options, zone)
        \o "/" \o options.packages[i]]

\* ------------------------------------------------------ facade operations
\* What a public method does before it awaits: it throws (error holds the
\* Error), or it builds the paths of a period descriptor and hands them and
\* type to #request.
Throws(error) == [descriptor |-> <<>>, paths |-> <<>>, type |-> "", error |-> <<error>>]

Requests(descriptor, type, zone) ==
    [descriptor |-> <<descriptor>>, paths |-> makeRequestPaths(descriptor, zone),
     type |-> type, error |-> <<>>]

\* The options of a call: packages, the period values the method reads
\* (date, week, start, end, startOfWeek) and the clock and time zone of the
\* process.
\* Mutant: the strings are turned into Dates with new Date, as getDay does.
getBetweenDatesNewDate(o) ==
    Requests(RangeOptions(o.packages, "point", NewDate(o.start), NewDate(o.end)),
             "point", o.zone)

getBetweenDates(o) ==
    Requests(RangeOptions(o.packages, "point",
        IF o.start.form = "Date" THEN o.start.date ELSE parseISO(o.start, o.zone),
        IF o.end.form = "Date" THEN o.end.date ELSE parseISO(o.end, o.zone)),
        "point", o.zone)

getDailyDownloadsForLastMonth(o) ==
    Requests(KeywordOptions(o.packages, "range", "last-month"), "range", o.zone)

getDailyDownloadsForLastWeek(o) ==
    Requests(KeywordOptions(o.packages, "range", "last-week"), "range", o.zone)

getDailyDownloadsForMonth(o) == Throws(NotImplementedError)

getDailyDownloadsForWeek(o) ==
    LET r == getStartAndEndDatesForWeek(o.week, o.startOfWeek, o.currentYear, o.zone)
    IN  Requests(RangeOptions(o.packages, "range", r.startDate, r.endDate), "range", o.zone)

\* Mutant: the descriptor names the last-day keyword next to the date.
getDayWithKeyword(o) ==
    Requests([DateOptions(o.packages, "point", NewDate(o.date)) EXCEPT !.keyword = "last-day"],
             "point", o.zone)

getDay(o) ==
    Requests(DateOptions(o.packages, "point", NewDate(o.date)), "point", o.zone)

getLastDay(o) ==
    Requests(KeywordOptions(o.packages, "point", "last-day"), "point", o.zone)

getLastMonth(o) ==
    Requests(KeywordOptions(o.packages, "point", "last-month"), "point", o.zone)

getLastWeek(o) ==
    Requests(KeywordOptions(o.packages, "point", "last-week"), "point", o.zone)

\* Mutant: the method asks for the last-month keyword.
getMonthAsLastMonth(o) ==
    Requests(KeywordOptions(o.packages, "point", "last-month"), "point", o.zone)

getMonth(o) == Throws(NotImplementedError)

getWeek(o) ==
    LET r == getStartAndEndDatesForWeek(o.week, o.startOfWeek, o.currentYear, o.zone)
    IN  Requests(RangeOptions(o.packages, "point", r.startDate, r.endDate), "point", o.zone)

Operations ==
    {"getBetweenDates", "getDailyDownloadsForLastMonth", "getDailyDownloadsForLastWeek",
     "getDailyDownloadsForMonth", "getDailyDownloadsForWeek", "getDay", "getLastDay",
     "getLastMonth", "getLastWeek", "getMonth", "getWeek"}

\* The public method named op, applied to the options o.
Invoke(op, o) ==
    CASE op = "getBetweenDates" -> getBetweenDates(o)
      [] op = "getDailyDownloadsForLastMonth" -> getDailyDownloadsForLastMonth(o)
      [] op = "getDailyDownloadsForLastWeek" -> getDailyDownloadsForLastWeek(o)
      [] op = "getDailyDownloadsForMonth" -> getDailyDownloadsForMonth(o)
      [] op = "getDailyDownloadsForWeek" -> getDailyDownloadsForWeek(o)
      [] op = "getDay" -> getDay(o)
      [] op = "getLastDay" -> getLastDay(o)
      [] op = "getLastMonth" -> getLastMonth(o)
      [] op = "getLastWeek" -> getLastWeek(o)
      [] op = "getMonth" -> getMonth(o)
      [] op = "getWeek" -> getWeek(o)

\* ------------------------------------------------------------------ inputs
\* The packages arrays of a call: the first n of the names below.
AllPackages == <<"express", "@aws-lambda-powertools/logger", "zod", "undici">>

PackageLists == {SubSeq(AllPackages, 1, n) : n \in 1..MaxPackages}

\* Hours east of UTC of the process's time zone.
Zones == {0}

Years == {2023}

DateValues == {IsoDateToken(2023, 5, 1), DateToken(NewDate(IsoDateToken(2023, 5, 1)))}

EndValues == {IsoDateToken(2023, 5, 15)}

WeekValues == {IsoDateToken(2023, 5, 15), WeekToken(20, 2)}

StartOfWeekValues == {"monday", "sunday"}

\* The options a facade method is called with; a method reads the fields
\* it needs and ignores the others.
CallOptions(packages, date, week, start, end, sow, z, y) ==
    [packages |-> packages, date |-> date, week |-> week, start |-> start,
     end |-> end, startOfWeek |-> sow, currentYear |-> y, zone |-> z]

DefaultDate == IsoDateToken(2023, 5, 1)

\* The calls of the public methods: <<method, options>>.
CallInputs(z, y) ==
    {<<op, CallOptions(p, DefaultDate, DefaultDate, DefaultDate, DefaultDate, "monday", z, y)>> :
        op \in {"getDailyDownloadsForLastMonth", "getDailyDownloadsForLastWeek",
                "getDailyDownloadsForMonth", "getLastDay", "getLastMonth",
                "getLastWeek", "getMonth"},
        p \in PackageLists}
    \cup {<<"getDay", CallOptions(p, d, DefaultDate, DefaultDate, DefaultDate, "monday", z, y)>> :
            p \in PackageLists, d \in DateValues}
    \cup {<<"getBetweenDates", CallOptions(p, DefaultDate, DefaultDate, d, e, "monday", z, y)>> :
            p \in PackageLists, d \in DateValues, e \in EndValues}
    \cup {<<op, CallOptions(p, DefaultDate, w, DefaultDate, DefaultDate, sow, z, y)>> :
            op \in {"getWeek", "getDailyDownloadsForWeek"}, p \in PackageLists,
            w \in WeekValues, sow \in StartOfWeekValues}

\* ----------------------------------------------------------- period inputs
\* Hours east of UTC of the time zones a process may run in.
TimeZones == {-5, 0, 5}

\* The years the clock of the process may show.
ClockYears == {2023, 2024}

\* 'YYYY-MM' (year > 0), 'MM' or 'M' (year 0, digits the number of month
\* digits): the month tokens of getMonth's tests.
MonthToken(y, m, digits) == Token("month", InvalidDate, y, m, 0, 0, digits)

MonthValues == {MonthToken(2023, 1, 2), MonthToken(0, 1, 2), MonthToken(0, 1, 1)}

\* The options of a call of getMonth or getDailyDownloadsForMonth as the
\* tests pass them; the methods declare no parameter.
MonthCallOptions(packages, month, z, y) ==
    [packages |-> packages, month |-> month, currentYear |-> y, zone |-> z]

\* new Date('YYYY-MM-DD') and new Date(y, m - 1, d, h) as a caller in the
\* time zone z builds them.
UtcMidnight(y, m, d) == DateToken(MkDate(DaysFromCivil(y, m, d) * 24))

LocalTime(y, m, d, h, z) == DateToken(MkDate(LocalMidnight(DaysFromCivil(y, m, d), z).time + h))

\* The dates getDay is called with: strings, of which one names no day,
\* and Date objects.
DayValues(z) ==
    {IsoDateToken(2023, 5, 1), IsoDateToken(2023, 12, 31), IsoDateToken(2023, 2, 30),
     UtcMidnight(2023, 5, 15), LocalTime(2024, 1, 1, 9, z)}

\* The <<start, end>> pairs getBetweenDates is called with.
RangeValues(z) ==
    {<<IsoDateToken(2023, 5, 1), IsoDateToken(2023, 5, 15)>>,
     <<IsoDateToken(2023, 12, 31), IsoDateToken(2024, 1, 1)>>,
     <<LocalTime(2023, 5, 1, 0, z), LocalTime(2023, 5, 15, 18, z)>>,
     <<UtcMidnight(2023, 5, 1), UtcMidnight(2023, 5, 15)>>}

\* The week values getWeek and getDailyDownloadsForWeek are called with: a
\* Monday, a Wednesday and a Sunday of one ISO week, days around the turn of
\* a year, Date objects, week numbers with and without a year and with one
\* and two digits, and strings that name no week.
PeriodWeekValues(z) ==
    {IsoDateToken(2023, 5, 15), IsoDateToken(2023, 5, 17), IsoDateToken(2023, 5, 21),
     IsoDateToken(2024, 1, 1), IsoDateToken(2023, 1, 1),
     UtcMidnight(2023, 5, 15), LocalTime(2023, 5, 15, 0, z), LocalTime(2024, 5, 19, 22, z),
     IsoWeekToken(2023, 20, 2), IsoWeekToken(2024, 20, 2), WeekToken(20, 2),
     IsoWeekToken(2023, 1, 2), IsoWeekToken(2023, 1, 1), WeekToken(1, 2), WeekToken(1, 1),
     IsoWeekToken(2023, 53, 2), IsoWeekToken(2023, 54, 2), InvalidToken}

\* The packages of the calls that probe the periods.
PeriodPackages == {SubSeq(AllPackages, 2, 2)}

\* The calls of the methods that take a period: <<method, options>>.
PeriodInputs(z, y) ==
    {<<"getDay", CallOptions(p, d, DefaultDate, DefaultDate, DefaultDate, "monday", z, y)>> :
        p \in PeriodPackages, d \in DayValues(z)}
    \cup {<<"getBetweenDates", CallOptions(p, DefaultDate, DefaultDate, r[1], r[2], "monday", z, y)>> :
            p \in PeriodPackages, r \in RangeValues(z)}
    \cup {<<op, CallOptions(p, DefaultDate, w, DefaultDate, DefaultDate, sow, z, y)>> :
            op \in {"getWeek", "getDailyDownloadsForWeek"}, p \in PeriodPackages,
            w \in PeriodWeekValues(z), sow \in StartOfWeekValues}
    \cup {<<op, MonthCallOptions(p, m, z, y)>> :
            op \in {"getMonth", "getDailyDownloadsForMonth"}, p \in PeriodPackages,
            m \in MonthValues}

\* RequestOptions: method and body are "" when absent, queryParams is <<>>
\* when absent and <<params>> otherwise.
PathOptions(path) == [path |-> path, method |-> "", body |-> "", queryParams |-> <<>>]

NoOptions == PathOptions("")

\* The options of the direct calls of request().
DirectOptions == {NoOptions, PathOptions("/some/path")}

\* ------------------------------------------------------- query parameters
\* this.#basePath of a service built without a basePath.
BasePath == "/downloads"

\* A text is a sequence of one-character strings.  The values of query
\* parameters: a string, a number, a bigint (its decimal digits), a Date,
\* null and undefined.
QString(chars) == [type |-> "string", chars |-> chars, number |-> 0, date |-> InvalidDate]

QNumber(n) == [type |-> "number", chars |-> <<>>, number |-> n, date |-> InvalidDate]

QBigInt(digits) == [type |-> "bigint", chars |-> digits, number |-> 0, date |-> InvalidDate]

QDate(date) == [type |-> "Date", chars |-> <<>>, number |-> 0, date |-> date]

QNull == [type |-> "null", chars |-> <<>>, number |-> 0, date |-> InvalidDate]

QUndefined == [type |-> "undefined", chars |-> <<>>, number |-> 0, date |-> InvalidDate]

\* The characters a URL serialization leaves as they are.
AlphaNumerics ==
    {"a", "b", "c", "d", "e", "f", "g", "h", "i", "j", "k", "l", "m", "n", "o", "p", "q",
     "r", "s", "t", "u", "v", "w", "x", "y", "z", "A", "B", "C", "D", "E", "F", "G", "H",
     "I", "J", "K", "L", "M", "N", "O", "P", "Q", "R", "S", "T", "U", "V", "W", "X", "Y",
     "Z", "0", "1", "2", "3", "4", "5", "6", "7", "8", "9"}

\* '%XX' of the ASCII characters the inputs use.
PercentEncoded(ch) ==
    CASE ch = " " -> <<"%", "2", "0">>
      [] ch = "%" -> <<"%", "2", "5">>
      [] ch = "&" -> <<"%", "2", "6">>
      [] ch = "+" -> <<"%", "2", "B">>
      [] ch = "/" -> <<"%", "2", "F">>
      [] ch = ":" -> <<"%", "3", "A">>
      [] ch = "=" -> <<"%", "3", "D">>
      [] ch = "@" -> <<"%", "4", "0">>

RECURSIVE Flatten(_)
Flatten(texts) == IF texts = <<>> THEN <<>> ELSE Head(texts) \o Flatten(Tail(texts))

\* encodeURI: letters, digits and ; , / ? : @ & = + $ - _ . ! ~ * ' ( ) #
\* stay, every other character is percent-encoded.
encodeURI(chars) ==
    Flatten([i \in 1..Len(chars) |->
                IF chars[i] \in AlphaNumerics
                                \cup {";", ",", "/", "?", ":", "@", "&", "=", "+", "$", "-",
                                      "_", ".", "!", "~", "*", "'", "(", ")", "#"}
                THEN <<chars[i]>> ELSE PercentEncoded(chars[i])])

\* The decimal digits of a natural number, and `${n}` of an integer.
RECURSIVE Digits(_)
Digits(n) ==
    IF n < 10 THEN <<ToString(n)>> ELSE Digits(n \div 10) \o <<ToString(n % 10)>>

NumberText(n) == IF n < 0 THEN <<"-">> \o Digits(-n) ELSE Digits(n)

Pad2(n) == IF n < 10 THEN <<"0">> \o Digits(n) ELSE Digits(n)

\* date.toISOString().split('T')[0]: the UTC day as 'YYYY-MM-DD'.
IsoDay(date) ==
    LET d == CivilFromDays(date.time \div 24)
    IN  Digits(d.year) \o <<"-">> \o Pad2(d.month) \o <<"-">> \o Pad2(d.day)

\* An entry of the params object, in the order of Object.entries.
Param(key, value) == [key |-> key, value |-> value]

\* `value instanceof BigInt`: a bigint is a primitive and no instance of
\* anything, and no other value here is a BigInt object.
instanceofBigInt(value) == value.type = "BigInt object"

\* Mutant: null and undefined are appended as the words they print as.
serializeQueryParamsKeepNullish(params) ==
    Flatten([i \in 1..Len(params) |->
        LET key == params[i].key
            value == params[i].value
        IN  IF value.type = "undefined"
            THEN <<Param(key, <<"u", "n", "d", "e", "f", "i", "n", "e", "d">>)>>
            ELSE IF value.type = "null" THEN <<Param(key, <<"n", "u", "l", "l">>)>>
            ELSE IF value.type = "number" THEN <<Param(key, NumberText(value.number))>>
            ELSE IF value.type = "string" THEN <<Param(key, encodeURI(value.chars))>>
            ELSE IF value.type = "Date" THEN <<Param(key, IsoDay(value.date))>>
            ELSE <<>>])

\* #serializeQueryParams: the entries appended to the URLSearchParams, in
\* order.  null and undefined are skipped; a number is appended as
\* `${value}`, a string as encodeURI(value), a Date as its ISO day; a value
\* that passes none of the tests is not appended.
serializeQueryParams(params) ==
    Flatten([i \in 1..Len(params) |->
        LET key == params[i].key
            value == params[i].value
        IN  IF value.type \in {"undefined", "null"} THEN <<>>
            ELSE (IF value.type = "number" \/ instanceofBigInt(value)
                  THEN <<Param(key, IF value.type = "number"
                                    THEN NumberText(value.number) ELSE value.chars)>>
                  ELSE <<>>)
                 \o (IF value.type = "string"
                     THEN <<Param(key, encodeURI(value.chars))>> ELSE <<>>)
                 \o (IF value.type = "Date"
                     THEN <<Param(key, IsoDay(value.date))>> ELSE <<>>)])

\* The application/x-www-form-urlencoded serialization of a text: letters,
\* digits and * - . _ stay, a space becomes '+', every other character is
\* percent-encoded.
UrlEncoded(chars) ==
    Flatten([i \in 1..Len(chars) |->
                IF chars[i] \in AlphaNumerics \cup {"*", "-", ".", "_"} THEN <<chars[i]>>
                ELSE IF chars[i] = " " THEN <<"+">>
                ELSE PercentEncoded(chars[i])])

\* The string of a text.
RECURSIVE StringOf(_)
StringOf(chars) == IF chars = <<>> THEN "" ELSE Head(chars) \o StringOf(Tail(chars))

\* `${query}` of a URLSearchParams: name=value pairs joined with '&'.
RECURSIVE URLSearchParamsToString(_)
URLSearchParamsToString(entries) ==
    IF entries = <<>> THEN ""
    ELSE StringOf(UrlEncoded(Head(entries).key)) \o "="
         \o StringOf(UrlEncoded(Head(entries).value))
         \o (IF Len(entries) > 1 THEN "&" ELSE "")
         \o URLSearchParamsToString(Tail(entries))

\* The URL request(options) fetches: base path, path and, when queryParams
\* is given, '?' and the serialized parameters.
RequestUrl(opts) ==
    LET query == IF opts.queryParams # <<>>
                 THEN "?" \o URLSearchParamsToString(serializeQueryParams(opts.queryParams[1]))
                 ELSE ""
    IN  BasePath \o opts.path \o query

\* RequestOptions with queryParams.
QueryOptions(path, params) == [PathOptions(path) EXCEPT !.queryParams = <<params>>]

Foo == <<"f", "o", "o">>

Bar == <<"b", "a", "r">>

Baz == <<"b", "a", "z">>

\* The queryParams of the direct calls: those of the tests, and strings
\* with the characters ' ', '%', '&' and '/', a negative number and a
\* bigint above Number.MAX_SAFE_INTEGER.
QueryParamsValues ==
    {<<>>,
     <<Param(Foo, QUndefined), Param(Bar, QNull)>>,
     <<Param(Foo, QString(<<"b", "a", "r", "@">>)), Param(Baz, QNumber(1)),
       Param(Bar, QUndefined)>>,
     <<Param(Foo, QString(<<"b", "a", "r", "@">>)), Param(Baz, QNumber(1)),
       Param(Bar, QBigInt(<<"4", "2">>))>>,
     <<Param(Foo, QDate(MkDate(DaysFromCivil(2021, 1, 1) * 24)))>>,
     <<Param(Baz, QNull), Param(Bar, QNumber(-7)), Param(Foo, QString(<<"a", " ", "b">>))>>,
     <<Param(Foo, QString(<<"1", "%", "&", "/">>))>>,
     <<Param(Bar, QBigInt(<<"9", "0", "0", "7", "1", "9", "9", "2", "5", "4", "7", "4",
                            "0", "9", "9", "3">>))>>}

\* The options of the direct calls that carry queryParams.
QueryCalls == {QueryOptions("", params) : params \in QueryParamsValues}
                  \cup {NoOptions, QueryOptions("/some/path", <<Param(Baz, QNumber(1))>>)}

\* The statuses a server answers with.
Statuses == {200, 401, 503}

ValidPoint(package) ==
    JObject([package |-> JString(package), downloads |-> JNumber("2165"),
             start |-> JString("2023-05-08"), end |-> JString("2023-05-14")])

ValidRange(package) ==
    JObject([package |-> JString(package), start |-> JString("2023-05-08"),
             end |-> JString("2023-05-08"),
             downloads |-> JArray("0" :> JObject([downloads |-> JNumber("2165"),
                                                  day |-> JString("2023-05-08")]))])

\* The JSON documents a server answers with: well-formed records, a record
\* with a field no schema names, and a record without its package.
JsonValues ==
    {ValidPoint("express"), ValidRange("express"),
     JObject([package |-> JString("@aws-lambda-powertools/logger"),
              downloads |-> JNumber("713"), start |-> JString("2023-05-08"),
              end |-> JString("2023-05-14"), extra |-> JString("x")]),
     JObject([downloads |-> JNumber("2165"), start |-> JString("2023-05-08"),
              end |-> JString("2023-05-14")])}

\* What a fetch can settle with.  The direct calls, whose callers do not
\* read the document, are answered with one JSON document only.
Replies(who) ==
    {FetchThrows}
    \cup {Response(st, FALSE, Undefined) : st \in Statuses}
    \cup {Response(200, TRUE, v) :
            v \in IF who = "facade" THEN JsonValues ELSE {ValidPoint("express")}}

\* ---------------------------------------------------------- response bodies
\* A range record whose second item lacks its day and has a string for its
\* downloads.
RangeWithBadItem(package) ==
    JObject([package |-> JString(package), start |-> JString("2023-05-08"),
             end |-> JString("2023-05-09"),
             downloads |-> JArray("0" :> JObject([downloads |-> JNumber("2165"),
                                                  day |-> JString("2023-05-08")])
                                  @@ "1" :> JObject([downloads |-> JString("12")]))])

\* The JSON documents the bodies of the responses hold when the shapes are
\* probed: the well-formed records, a record with an unknown key, records
\* with one, two and four offending fields, a range record with an empty
\* list and one with a bad item, and values that are no objects.
ShapeValues ==
    {ValidPoint("@aws-lambda-powertools/logger"), ValidRange("@aws-lambda-powertools/logger"),
     JObject([package |-> JString("@aws-lambda-powertools/logger"),
              downloads |-> JNumber("713"), start |-> JString("2023-05-08"),
              end |-> JString("2023-05-14"), extra |-> JString("x")]),
     JObject([downloads |-> JNumber("2165"), start |-> JString("2023-05-08"),
              end |-> JString("2023-05-14")]),
     JObject([downloads |-> JString("2165"), start |-> JString("2023-05-08"),
              end |-> JNumber("20230514")]),
     JObject(NoMembers),
     JObject([package |-> JString("@aws-lambda-powertools/logger"),
              start |-> JString("2023-05-08"), end |-> JString("2023-05-08"),
              downloads |-> JArray(NoMembers)]),
     RangeWithBadItem("@aws-lambda-powertools/logger"),
     JString("not found"), JArray(NoMembers), JNull}

\* What a fetch can settle with when the shapes are probed.
ShapeReplies ==
    {FetchThrows, Response(503, FALSE, Undefined), Response(200, FALSE, Undefined)}
    \cup {Response(200, TRUE, v) : v \in ShapeValues}

\* The calls that probe the shapes: point and range methods, one package.
ShapeInputs(z, y) ==
    {<<op, CallOptions(p, DefaultDate, DefaultDate, DefaultDate, DefaultDate, "monday", z, y)>> :
        op \in {"getLastDay", "getLastMonth", "getDailyDownloadsForLastWeek",
                "getDailyDownloadsForLastMonth"},
        p \in PeriodPackages}
    \cup {<<"getDay", CallOptions(p, DefaultDate, DefaultDate, DefaultDate, DefaultDate,
                                  "monday", z, y)>> : p \in PeriodPackages}
    \cup {<<"getDailyDownloadsForWeek",
            CallOptions(p, DefaultDate, DefaultDate, DefaultDate, DefaultDate, "monday", z, y)>> :
            p \in PeriodPackages}

\* ----------------------------------------------------------- configuration
\* requestRetryConfig.delay when the configuration names none.
DefaultDelay == 1000

\* `${config?.protocol || 'https'}://${config?.hostname || 'api.npmjs.org'}`:
\* a protocol or hostname the configuration does not name is "".
Origin(protocol, hostname) ==
    (IF protocol = "" THEN "https" ELSE protocol) \o "://"
    \o (IF hostname = "" THEN "api.npmjs.org" ELSE hostname)

\* The origin when the configuration names neither protocol nor hostname.
DefaultOrigin == Origin("", "")

\* No fetch was issued yet.
NoOrigin == ""

\* ------------------------------------------------------------------- state
VARIABLES
    maxRetries,   \* #requestRetry.maxRetries of the RequestService
    count,        \* #requestRetry.count of the RequestService
    zone,         \* the time zone of the process, hours east of UTC
    currentYear,  \* new Date().getFullYear()
    pc,           \* per request() call: "idle", "fetch", "wait", "json", "done"
    options,      \* per call: the RequestOptions it was called with
    response,     \* per call: the Response it holds while it reads the body
    received,     \* per call: what its last fetch settled with
    outcome,      \* per call: the promise request() returned
    owner,        \* per call: "direct" or "facade"
    attempts,     \* per call: the number of fetches it issued
    failures,     \* per call: the number of retriable statuses it received
    isolated,     \* per call: count was 0 when it began and no call overlapped it
    facade,       \* the facade call: its method, its options, its paths and its promise
    delay,        \* #requestRetry.delay of the RequestService, in milliseconds
    timers,       \* per call: the durations of the setTimeout calls it made, in order
    sequential,   \* per call: no other call was in flight at any time while it was
    globalOrigin, \* the global origin of undici, which fetch resolves a path against
    configured,   \* the origin the RequestService was constructed with
    sentTo        \* per call: the origin its last fetch was resolved against

vars == <<maxRetries, count, zone, currentYear, pc, options, response, received, outcome,
          owner, attempts, failures, isolated, facade, delay, timers, sequential,
          globalOrigin, configured, sentTo>>

NoFacade ==
    [state |-> "idle", op |-> "", args |-> <<>>, packages |-> <<>>, descriptor |-> <<>>,
     type |-> "", paths |-> <<>>, calls |-> <<>>, order |-> <<>>, value |-> <<>>,
     error |-> <<>>]

Active(c) == pc[c] \in {"fetch", "wait", "json"}

IdleCalls == {c \in Calls : pc[c] = "idle"}

\* The n lowest idle calls, in increasing order.
RECURSIVE FirstIdle(_, _)
FirstIdle(n, from) ==
    IF n = 0 THEN <<>>
    ELSE LET c == CHOOSE x \in IdleCalls : x >= from /\ \A y \in IdleCalls : y >= from => x <= y
         IN  <<c>> \o FirstIdle(n - 1, c + 1)

Init ==
    /\ maxRetries \in MaxRetriesConfigs
    /\ count = 0
    /\ zone \in Zones
    /\ currentYear \in Years
    /\ pc = [c \in Calls |-> "idle"]
    /\ options = [c \in Calls |-> NoOptions]
    /\ response = [c \in Calls |-> NoReply]
    /\ received = [c \in Calls |-> NoReply]
    /\ outcome = [c \in Calls |-> Pending]
    /\ owner = [c \in Calls |-> "direct"]
    /\ attempts = [c \in Calls |-> 0]
    /\ failures = [c \in Calls |-> 0]
    /\ isolated = [c \in Calls |-> FALSE]
    /\ facade = NoFacade
    /\ delay = DefaultDelay
    /\ timers = [c \in Calls |-> <<>>]
    /\ sequential = [c \in Calls |-> FALSE]
    /\ globalOrigin = DefaultOrigin
    /\ configured = DefaultOrigin
    /\ sentTo = [c \in Calls |-> NoOrigin]

\* ------------------------------------------------------- the facade's join
FacadeError(cause) ==
    MkError("Error", "Unable to get downloads stats from the npm API", <<>>, <<cause>>)

\* Mutant: every response is parsed with the point schema.
SchemaOfPointOnly(type) == NpmAPIPointResponseSchema

SchemaOf(type) ==
    IF type = "point" THEN NpmAPIPointResponseSchema ELSE NpmAPIRangeResponseSchema

\* Mutant: the responses that do not parse are left out of the list.
parseResponsesSkipInvalid(responses, type) ==
    LET parsed == [i \in 1..Len(responses) |->
                      parseObjectWithSchema(SchemaOf(type), responses[i])]
        good == SelectSeq([i \in 1..Len(responses) |-> parsed[i]], LAMBDA r : r.ok)
    IN  [ok |-> TRUE, value |-> [i \in 1..Len(good) |-> good[i].value], error |-> <<>>]

\* responses.map(parse): the parsed responses in order, or the error of the
\* first response that does not parse.
parseResponses(responses, type) ==
    LET parsed == [i \in 1..Len(responses) |->
                      parseObjectWithSchema(SchemaOf(type), responses[i])]
        bad == {i \in 1..Len(responses) : ~parsed[i].ok}
    IN  IF bad = {}
        THEN [ok |-> TRUE, value |-> [i \in 1..Len(responses) |-> parsed[i].value],
              error |-> <<>>]
        ELSE [ok |-> FALSE, value |-> <<>>,
              error |-> parsed[CHOOSE i \in bad : \A j \in bad : i <= j].error]

\* Mutant: each response is parsed as soon as its call has resolved, and
\* the first failure, of a call or of a parse, rejects.
clientRequestValidatesEarly(f, outs) ==
    LET results == [i \in 1..Len(f.calls) |-> outs[f.calls[i]]]
        rejected == {i \in 1..Len(results) : results[i].state = "rejected"}
        invalid == {i \in 1..Len(results) :
                       /\ results[i].state = "fulfilled"
                       /\ ~parseObjectWithSchema(SchemaOf(f.type), results[i].value).ok}
    IN  IF f.state # "pending" THEN f
        ELSE IF invalid # {}
        THEN LET i == CHOOSE j \in invalid : \A k \in invalid : j <= k
             IN  [f EXCEPT !.state = "rejected",
                           !.error = <<FacadeError(
                               parseObjectWithSchema(SchemaOf(f.type),
                                                     results[i].value).error[1])>>]
        ELSE IF rejected # {}
        THEN LET i == CHOOSE j \in rejected : TRUE
             IN  [f EXCEPT !.state = "rejected",
                           !.error = <<FacadeError(results[i].error[1])>>]
        ELSE IF \A i \in 1..Len(results) : results[i].state = "fulfilled"
        THEN [f EXCEPT !.state = "fulfilled",
                       !.value = parseResponses([i \in 1..Len(results) |-> results[i].value],
                                                f.type).value]
        ELSE f

\* Mutant: the responses are listed in the order in which the calls
\* settled.
clientRequestCompletionOrder(f, outs) ==
    LET results == [i \in 1..Len(f.order) |-> outs[f.order[i]]]
        rejected == {i \in 1..Len(results) : results[i].state = "rejected"}
    IN  IF f.state # "pending" THEN f
        ELSE IF rejected # {}
        THEN LET i == CHOOSE j \in rejected : TRUE
             IN  [f EXCEPT !.state = "rejected",
                           !.error = <<FacadeError(results[i].error[1])>>]
        ELSE IF Len(f.order) = Len(f.calls)
        THEN LET p == parseResponses([i \in 1..Len(results) |-> results[i].value], f.type)
             IN  IF p.ok
                 THEN [f EXCEPT !.state = "fulfilled", !.value = p.value]
                 ELSE [f EXCEPT !.state = "rejected",
                                !.error = <<FacadeError(p.error[1])>>]
        ELSE f

\* Mutant: the join waits until every call has settled before it rejects.
clientRequestWaitsForAll(f, outs) ==
    LET results == [i \in 1..Len(f.calls) |-> outs[f.calls[i]]]
        rejected == {i \in 1..Len(results) : results[i].state = "rejected"}
    IN  IF f.state # "pending" THEN f
        ELSE IF \E i \in 1..Len(results) : results[i].state = "pending" THEN f
        ELSE IF rejected # {}
        THEN LET i == CHOOSE j \in rejected : \A k \in rejected : j <= k
             IN  [f EXCEPT !.state = "rejected",
                           !.error = <<FacadeError(results[i].error[1])>>]
        ELSE LET p == parseResponses([i \in 1..Len(results) |-> results[i].value], f.type)
             IN  IF p.ok
                 THEN [f EXCEPT !.state = "fulfilled", !.value = p.value]
                 ELSE [f EXCEPT !.state = "rejected",
                                !.error = <<FacadeError(p.error[1])>>]

\* #request after its dispatch: the facade's promise once the promises of
\* its calls are outs.  Promise.all rejects with the first rejection and
\* fulfils when every call has; the responses are then parsed, and whatever
\* was thrown is wrapped.
clientRequest(f, outs) ==
    LET results == [i \in 1..Len(f.calls) |-> outs[f.calls[i]]]
        rejected == {i \in 1..Len(results) : results[i].state = "rejected"}
    IN  IF f.state # "pending" THEN f
        ELSE IF rejected # {}
        THEN LET i == CHOOSE j \in rejected : TRUE
             IN  [f EXCEPT !.state = "rejected",
                           !.error = <<FacadeError(results[i].error[1])>>]
        ELSE IF \A i \in 1..Len(results) : results[i].state = "fulfilled"
        THEN LET p == parseResponses([i \in 1..Len(results) |-> results[i].value], f.type)
             IN  IF p.ok
                 THEN [f EXCEPT !.state = "fulfilled", !.value = p.value]
                 ELSE [f EXCEPT !.state = "rejected",
                                !.error = <<FacadeError(p.error[1])>>]
        ELSE f

\* ------------------------------------------------------- the request service
\* The promise of call c settles with out; the facade reacts in the same
\* turn when the call is one of its own.  order lists the calls in the
\* order in which the pending join saw them settle.
Settle(c, out) ==
    /\ pc' = [pc EXCEPT ![c] = "done"]
    /\ outcome' = [outcome EXCEPT ![c] = out]
    /\ response' = [response EXCEPT ![c] = NoReply]
    /\ facade' = IF owner[c] = "facade"
                 THEN clientRequest([facade EXCEPT !.order = IF facade.state = "pending"
                                                             THEN Append(@, c) ELSE @],
                                    outcome')
                 ELSE facade

\* Mutant: only the first of the calls issues its fetch; the others wait
\* for it.
BeginFirstOnly(cs, opts, who) ==
    LET new == {cs[1]}
        alone == Len(cs) = 1 /\ count = 0 /\ \A d \in Calls : ~Active(d)
    IN  /\ pc' = [c \in Calls |-> IF c \in new THEN "fetch" ELSE pc[c]]
        /\ options' = [c \in Calls |-> IF c \in new THEN opts[1] ELSE options[c]]
        /\ owner' = [c \in Calls |-> IF c \in new THEN who ELSE owner[c]]
        /\ attempts' = [c \in Calls |-> IF c \in new THEN 1 ELSE attempts[c]]
        /\ isolated' = [c \in Calls |->
                           IF c \in new THEN alone
                           ELSE IF Active(c) THEN FALSE ELSE isolated[c]]
        /\ sequential' = [c \in Calls |->
                             IF c \in new THEN Len(cs) = 1 /\ \A d \in Calls : ~Active(d)
                             ELSE IF Active(c) THEN FALSE ELSE sequential[c]]
        /\ sentTo' = [c \in Calls |-> IF c \in new THEN globalOrigin ELSE sentTo[c]]

\* The synchronous prefix of request(options) for the calls cs, in order:
\* each builds its URL and issues its fetch.
Begin(cs, opts, who) ==
    LET new == {cs[i] : i \in 1..Len(cs)}
        alone == Len(cs) = 1 /\ count = 0 /\ \A d \in Calls : ~Active(d)
    IN  /\ pc' = [c \in Calls |-> IF c \in new THEN "fetch" ELSE pc[c]]
        /\ options' = [c \in Calls |->
                          IF c \in new
                          THEN opts[CHOOSE i \in 1..Len(cs) : cs[i] = c]
                          ELSE options[c]]
        /\ owner' = [c \in Calls |-> IF c \in new THEN who ELSE owner[c]]
        /\ attempts' = [c \in Calls |-> IF c \in new THEN 1 ELSE attempts[c]]
        /\ isolated' = [c \in Calls |->
                           IF c \in new THEN alone
                           ELSE IF Active(c) THEN FALSE ELSE isolated[c]]
        /\ sequential' = [c \in Calls |->
                             IF c \in new THEN Len(cs) = 1 /\ \A d \in Calls : ~Active(d)
                             ELSE IF Active(c) THEN FALSE ELSE sequential[c]]
        /\ sentTo' = [c \in Calls |-> IF c \in new THEN globalOrigin ELSE sentTo[c]]

\* A caller calls request(opts) on the service.
Request(opts) ==
    /\ IdleCalls # {}
    /\ Begin(FirstIdle(1, 1), <<opts>>, "direct")
    /\ UNCHANGED <<maxRetries, count, zone, currentYear, response, received, outcome,
                   failures, facade, delay, timers, globalOrigin, configured>>

\* Mutant: every client and server error status is taken for retriable.
isRetriableCodeAnyError(status) == status >= 400

\* [500, 502, 503, 504].includes(response.status)
isRetriableCode(status) == status \in RetriableCodes

\* Mutant: the bound check lets one retry too many through.
ShouldRetryOneMore(status) == status \in RetriableCodes /\ count <= maxRetries

\* Mutant: the bound check stops one retry too early.
ShouldRetryOneLess(status) == status \in RetriableCodes /\ count + 1 < maxRetries

\* The first branch of request(): a retriable status while the counter is
\* below the bound.
ShouldRetry(status) == isRetriableCode(status) /\ count < maxRetries

\* The second branch: a retriable status once the counter has reached the
\* bound.
RetriesExhausted(status) == isRetriableCode(status) /\ count >= maxRetries

\* Mutant: a fetch that throws is retried like a retriable status while the
\* counter is below the bound.
FetchSettlesRetriesThrow(c, reply) ==
    /\ pc[c] = "fetch"
    /\ received' = [received EXCEPT ![c] = reply]
    /\ failures' = [failures EXCEPT ![c] =
                       IF reply.kind = "response" /\ reply.status \in RetriableCodes
                       THEN @ + 1 ELSE @]
    /\ IF (reply.kind = "throw" /\ count < maxRetries)
          \/ (reply.kind = "response" /\ ~IsOk(reply.status) /\ ShouldRetry(reply.status))
       THEN /\ count' = count + 1
            /\ timers' = [timers EXCEPT ![c] = Append(@, delay)]
            /\ pc' = [pc EXCEPT ![c] = "wait"]
            /\ UNCHANGED <<outcome, response, facade>>
       ELSE IF reply.kind = "throw"
       THEN /\ Settle(c, Rejected(FetchFailedError))
            /\ UNCHANGED <<count, timers>>
       ELSE IF ~IsOk(reply.status)
       THEN IF RetriesExhausted(reply.status)
            THEN /\ Settle(c, Rejected(MaxRetriesExceededError))
                 /\ UNCHANGED <<count, timers>>
            ELSE /\ count' = 0
                 /\ Settle(c, Rejected(BadStatusError(reply.status)))
                 /\ UNCHANGED timers
       ELSE /\ count' = 0
            /\ pc' = [pc EXCEPT ![c] = "json"]
            /\ response' = [response EXCEPT ![c] = reply]
            /\ UNCHANGED <<outcome, facade, timers>>
    /\ UNCHANGED <<maxRetries, zone, currentYear, options, owner, attempts, isolated,
                   delay, sequential, globalOrigin, configured, sentTo>>

\* Mutant: the wait doubles with every retry the counter has seen.
FetchSettlesBacksOff(c, reply) ==
    /\ pc[c] = "fetch"
    /\ received' = [received EXCEPT ![c] = reply]
    /\ failures' = [failures EXCEPT ![c] =
                       IF reply.kind = "response" /\ reply.status \in RetriableCodes
                       THEN @ + 1 ELSE @]
    /\ IF reply.kind = "throw"
       THEN /\ Settle(c, Rejected(FetchFailedError))
            /\ UNCHANGED <<count, timers>>
       ELSE IF ~IsOk(reply.status)
       THEN IF ShouldRetry(reply.status)
            THEN /\ count' = count + 1
                 /\ timers' = [timers EXCEPT ![c] = Append(@, delay * 2 ^ count)]
                 /\ pc' = [pc EXCEPT ![c] = "wait"]
                 /\ UNCHANGED <<outcome, response, facade>>
            ELSE IF RetriesExhausted(reply.status)
            THEN /\ Settle(c, Rejected(MaxRetriesExceededError))
                 /\ UNCHANGED <<count, timers>>
            ELSE /\ count' = 0
                 /\ Settle(c, Rejected(BadStatusError(reply.status)))
                 /\ UNCHANGED timers
       ELSE /\ count' = 0
            /\ pc' = [pc EXCEPT ![c] = "json"]
            /\ response' = [response EXCEPT ![c] = reply]
            /\ UNCHANGED <<outcome, facade, timers>>
    /\ UNCHANGED <<maxRetries, zone, currentYear, options, owner, attempts, isolated,
                   delay, sequential, globalOrigin, configured, sentTo>>

\* The fetch of call c settles with reply: lines 60 to 90 of request().
FetchSettles(c, reply) ==
    /\ pc[c] = "fetch"
    /\ received' = [received EXCEPT ![c] = reply]
    /\ failures' = [failures EXCEPT ![c] =
                       IF reply.kind = "response" /\ reply.status \in RetriableCodes
                       THEN @ + 1 ELSE @]
    /\ IF reply.kind = "throw"
       THEN /\ Settle(c, Rejected(FetchFailedError))
            /\ UNCHANGED <<count, timers>>
       ELSE IF ~IsOk(reply.status)
       THEN IF ShouldRetry(reply.status)
            THEN /\ count' = count + 1
                 /\ timers' = [timers EXCEPT ![c] = Append(@, delay)]
                 /\ pc' = [pc EXCEPT ![c] = "wait"]
                 /\ UNCHANGED <<outcome, response, facade>>
            ELSE IF RetriesExhausted(reply.status)
            THEN /\ Settle(c, Rejected(MaxRetriesExceededError))
                 /\ UNCHANGED <<count, timers>>
            ELSE /\ count' = 0
                 /\ Settle(c, Rejected(BadStatusError(reply.status)))
                 /\ UNCHANGED timers
       ELSE /\ count' = 0
            /\ pc' = [pc EXCEPT ![c] = "json"]
            /\ response' = [response EXCEPT ![c] = reply]
            /\ UNCHANGED <<outcome, facade, timers>>
    /\ UNCHANGED <<maxRetries, zone, currentYear, options, owner, attempts, isolated,
                   delay, sequential, globalOrigin, configured, sentTo>>

\* Mutant: the callback of the timer never resolves the promise the call
\* awaits, so the call stays in its wait.
TimerFiresNeverResolves(c) ==
    /\ pc[c] = "wait"
    /\ UNCHANGED vars

\* Mutant: the counter is raised after the wait as well, by a step that
\* does not check the bound.
TimerFiresCountsAgain(c) ==
    /\ pc[c] = "wait"
    /\ pc' = [pc EXCEPT ![c] = "fetch"]
    /\ attempts' = [attempts EXCEPT ![c] = @ + 1]
    /\ count' = count + 1
    /\ sentTo' = [sentTo EXCEPT ![c] = globalOrigin]
    /\ UNCHANGED <<maxRetries, zone, currentYear, options, response, received,
                   outcome, owner, failures, isolated, facade, delay, timers,
                   sequential, globalOrigin, configured>>

\* Mutant: the retry is made with the path only, the query parameters, the
\* method and the body are left behind.
TimerFiresPathOnly(c) ==
    /\ pc[c] = "wait"
    /\ pc' = [pc EXCEPT ![c] = "fetch"]
    /\ attempts' = [attempts EXCEPT ![c] = @ + 1]
    /\ options' = [options EXCEPT ![c] = PathOptions(options[c].path)]
    /\ sentTo' = [sentTo EXCEPT ![c] = globalOrigin]
    /\ UNCHANGED <<maxRetries, count, zone, currentYear, response, received,
                   outcome, owner, failures, isolated, facade, delay, timers,
                   sequential, globalOrigin, configured>>

\* The retry delay of call c has passed: `return this.request(options)`.
TimerFires(c) ==
    /\ pc[c] = "wait"
    /\ pc' = [pc EXCEPT ![c] = "fetch"]
    /\ attempts' = [attempts EXCEPT ![c] = @ + 1]
    /\ sentTo' = [sentTo EXCEPT ![c] = globalOrigin]
    /\ UNCHANGED <<maxRetries, count, zone, currentYear, options, response, received,
                   outcome, owner, failures, isolated, facade, delay, timers,
                   sequential, globalOrigin, configured>>

\* response.json() of call c settles: lines 91 to 99 of request().
JsonSettles(c) ==
    /\ pc[c] = "json"
    /\ IF response[c].json
       THEN Settle(c, Fulfilled(response[c].value))
       ELSE Settle(c, Rejected(NonJSONError))
    /\ UNCHANGED <<maxRetries, count, zone, currentYear, options, received, owner,
                   attempts, failures, isolated, delay, timers, sequential,
                   globalOrigin, configured, sentTo>>

\* A caller calls the public method op of the client with the options o.
Call(op, o) ==
    LET plan == Invoke(op, o)
        n == Len(plan.paths)
    IN  /\ facade.state = "idle"
        /\ IF plan.error # <<>>
           THEN /\ facade' = [NoFacade EXCEPT !.state = "rejected", !.op = op,
                                              !.args = <<o>>, !.error = plan.error]
                /\ UNCHANGED <<pc, options, owner, attempts, isolated, sequential, sentTo>>
           ELSE /\ Cardinality(IdleCalls) >= n
                /\ LET cs == FirstIdle(n, 1)
                   IN  /\ Begin(cs, [i \in 1..n |-> PathOptions(plan.paths[i])], "facade")
                       /\ facade' = [state |-> "pending", op |-> op,
                                     args |-> <<o>>, packages |-> o.packages,
                                     descriptor |-> plan.descriptor,
                                     type |-> plan.type, paths |-> plan.paths,
                                     calls |-> cs, order |-> <<>>, value |-> <<>>,
                                     error |-> <<>>]
        /\ UNCHANGED <<maxRetries, count, zone, currentYear, response, received, outcome,
                       failures, delay, timers, globalOrigin, configured>>

\* `new RequestService({protocol, hostname})` elsewhere in the process, on
\* its own or by `new NpmDownloadCountClient(...)`: the constructor calls
\* setGlobalOrigin, and the fields it sets belong to the new object.
Construct(protocol, hostname) ==
    /\ globalOrigin' = Origin(protocol, hostname)
    /\ UNCHANGED <<maxRetries, count, zone, currentYear, pc, options, response, received,
                   outcome, owner, attempts, failures, isolated, facade, delay, timers,
                   sequential, configured, sentTo>>

\* The request service under direct calls of request().
Next ==
    \/ \E opts \in DirectOptions : Request(opts)
    \/ \E c \in Calls : \E reply \in Replies(owner[c]) : FetchSettles(c, reply)
    \/ \E c \in Calls : TimerFires(c)
    \/ \E c \in Calls : JsonSettles(c)

Spec == Init /\ [][Next]_vars

\* The client: one call of a public method, its requests served by the
\* request service it owns.
InitClient ==
    /\ Init
    /\ maxRetries <= MaxClientRetries

NextClient ==
    \/ \E in \in CallInputs(zone, currentYear) : Call(in[1], in[2])
    \/ \E c \in Calls : \E reply \in Replies(owner[c]) : FetchSettles(c, reply)
    \/ \E c \in Calls : TimerFires(c)
    \/ \E c \in Calls : JsonSettles(c)

SpecClient == InitClient /\ [][NextClient]_vars

\* The client under calls of the methods that take a period, in any of the
\* time zones and clock years.
InitPeriods ==
    /\ maxRetries = 1
    /\ count = 0
    /\ zone \in TimeZones
    /\ currentYear \in ClockYears
    /\ pc = [c \in Calls |-> "idle"]
    /\ options = [c \in Calls |-> NoOptions]
    /\ response = [c \in Calls |-> NoReply]
    /\ received = [c \in Calls |-> NoReply]
    /\ outcome = [c \in Calls |-> Pending]
    /\ owner = [c \in Calls |-> "direct"]
    /\ attempts = [c \in Calls |-> 0]
    /\ failures = [c \in Calls |-> 0]
    /\ isolated = [c \in Calls |-> FALSE]
    /\ facade = NoFacade
    /\ delay = DefaultDelay
    /\ timers = [c \in Calls |-> <<>>]
    /\ sequential = [c \in Calls |-> FALSE]
    /\ globalOrigin = DefaultOrigin
    /\ configured = DefaultOrigin
    /\ sentTo = [c \in Calls |-> NoOrigin]

NextPeriods ==
    \/ \E in \in PeriodInputs(zone, currentYear) : Call(in[1], in[2])
    \/ \E c \in Calls : \E reply \in Replies(owner[c]) : FetchSettles(c, reply)
    \/ \E c \in Calls : TimerFires(c)
    \/ \E c \in Calls : JsonSettles(c)

SpecPeriods == InitPeriods /\ [][NextPeriods]_vars

\* The request service under direct calls that carry query parameters.
InitQuery == Init /\ maxRetries = 1

NextQuery ==
    \/ \E opts \in QueryCalls : Request(opts)
    \/ \E c \in Calls : \E reply \in Replies(owner[c]) : FetchSettles(c, reply)
    \/ \E c \in Calls : TimerFires(c)
    \/ \E c \in Calls : JsonSettles(c)

SpecQuery == InitQuery /\ [][NextQuery]_vars

\* The client under one call whose response bodies take every shape.
InitShapes == Init /\ maxRetries = 1

NextShapes ==
    \/ \E in \in ShapeInputs(zone, currentYear) : Call(in[1], in[2])
    \/ \E c \in Calls : \E reply \in ShapeReplies : FetchSettles(c, reply)
    \/ \E c \in Calls : TimerFires(c)
    \/ \E c \in Calls : JsonSettles(c)

SpecShapes == InitShapes /\ [][NextShapes]_vars

\* The client when every fetch is answered or throws, every timer fires and
\* every body is read in the end.
Answered(c) == \E reply \in Replies(owner[c]) : FetchSettles(c, reply)

SpecClientFair ==
    /\ InitClient
    /\ [][NextClient]_vars
    /\ \A c \in Calls :
          /\ WF_vars(Answered(c))
          /\ WF_vars(TimerFires(c))
          /\ WF_vars(JsonSettles(c))

\* The request service under direct calls, constructed with any of the
\* retry delays.
DelayConfigs == {0, DefaultDelay, 2500}

InitDelays ==
    /\ maxRetries \in MaxRetriesConfigs
    /\ count = 0
    /\ zone \in Zones
    /\ currentYear \in Years
    /\ pc = [c \in Calls |-> "idle"]
    /\ options = [c \in Calls |-> NoOptions]
    /\ response = [c \in Calls |-> NoReply]
    /\ received = [c \in Calls |-> NoReply]
    /\ outcome = [c \in Calls |-> Pending]
    /\ owner = [c \in Calls |-> "direct"]
    /\ attempts = [c \in Calls |-> 0]
    /\ failures = [c \in Calls |-> 0]
    /\ isolated = [c \in Calls |-> FALSE]
    /\ facade = NoFacade
    /\ delay \in DelayConfigs
    /\ timers = [c \in Calls |-> <<>>]
    /\ sequential = [c \in Calls |-> FALSE]
    /\ globalOrigin = DefaultOrigin
    /\ configured = DefaultOrigin
    /\ sentTo = [c \in Calls |-> NoOrigin]

NextDelays ==
    \/ \E opts \in DirectOptions : Request(opts)
    \/ \E c \in Calls : \E reply \in Replies(owner[c]) : FetchSettles(c, reply)
    \/ \E c \in Calls : TimerFires(c)
    \/ \E c \in Calls : JsonSettles(c)

SpecDelays == InitDelays /\ [][NextDelays]_vars

\* The request service in a process that constructs further services: the
\* service is built with one of the configurations below, and so are the
\* others.
Protocols == {"", "http"}

Hostnames == {"", "localhost"}

InitOrigins ==
    /\ maxRetries = 1
    /\ count = 0
    /\ zone \in Zones
    /\ currentYear \in Years
    /\ pc = [c \in Calls |-> "idle"]
    /\ options = [c \in Calls |-> NoOptions]
    /\ response = [c \in Calls |-> NoReply]
    /\ received = [c \in Calls |-> NoReply]
    /\ outcome = [c \in Calls |-> Pending]
    /\ owner = [c \in Calls |-> "direct"]
    /\ attempts = [c \in Calls |-> 0]
    /\ failures = [c \in Calls |-> 0]
    /\ isolated = [c \in Calls |-> FALSE]
    /\ facade = NoFacade
    /\ delay = DefaultDelay
    /\ timers = [c \in Calls |-> <<>>]
    /\ sequential = [c \in Calls |-> FALSE]
    /\ \E p \in Protocols, h \in Hostnames :
          /\ configured = Origin(p, h)
          /\ globalOrigin = Origin(p, h)
    /\ sentTo = [c \in Calls |-> NoOrigin]

NextOrigins ==
    \/ \E p \in Protocols, h \in Hostnames : Construct(p, h)
    \/ Request(NoOptions)
    \/ \E c \in Calls : \E reply \in Replies(owner[c]) : FetchSettles(c, reply)
    \/ \E c \in Calls : TimerFires(c)
    \/ \E c \in Calls : JsonSettles(c)

SpecOrigins == InitOrigins /\ [][NextOrigins]_vars

\* ------------------------------------------------------------------ claims
MaxRetriesExceededMessage ==
    "API endpoint failed to provide a valid response, max retries exceeded"

\* Call c has begun and each of its attempts so far was answered with a
\* retriable status.
OnlyRetriableAnswers(c) == attempts[c] > 0 /\ failures[c] = attempts[c]

IsRetriableReply(r) == r.kind = "response" /\ r.status \in {500, 502, 503, 504}

IsBadStatusReply(r) ==
    r.kind = "response" /\ ~(r.status >= 200 /\ r.status <= 299)
    /\ r.status \notin {500, 502, 503, 504}

IsNonJsonReply(r) == r.kind = "response" /\ r.status >= 200 /\ r.status <= 299 /\ ~r.json

IsJsonReply(r) == r.kind = "response" /\ r.status >= 200 /\ r.status <= 299 /\ r.json

\* C1: an isolated call of request() that began with the counter at 0 and
\* whose every attempt is answered with a retriable status makes exactly
\* maxRetries + 1 attempts, never more, and then rejects with the max
\* retries exceeded message (for maxRetries = 0 too).
C1_ExactlyMaxRetriesPlusOneAttempts ==
    \A c \in Calls :
        (isolated[c] /\ OnlyRetriableAnswers(c)) =>
            /\ attempts[c] <= maxRetries + 1
            /\ (pc[c] = "done") = (attempts[c] = maxRetries + 1)
            /\ pc[c] # "done" => pc[c] = "wait"
            /\ pc[c] = "done" =>
                  /\ outcome[c].state = "rejected"
                  /\ outcome[c].error[1].message = MaxRetriesExceededMessage

C1_Witness ==
    \E c \in Calls :
        /\ isolated[c] /\ OnlyRetriableAnswers(c) /\ pc[c] = "done"
        /\ maxRetries = MaxMaxRetries
        /\ attempts[c] = maxRetries + 1

\* C2: whenever an isolated call of request() settles after a response
\* (valid JSON, a body that is no JSON, a non-retriable status or max
\* retries exceeded), the attempt counter is 0.
C2_CounterIsZeroOnceSettled ==
    [][\A c \in Calls :
          (pc[c] # "done" /\ pc'[c] = "done" /\ isolated[c]
           /\ received'[c].kind = "response") => count' = 0]_vars

\* C3: of the N >= 2 requests of one facade call, each makes its own retry
\* sequence: a request is failed with max retries exceeded only after it
\* has itself received maxRetries + 1 retriable answers, and it never makes
\* more than maxRetries + 1 attempts.
C3_IndependentRetrySequences ==
    \A c \in Calls :
        (owner[c] = "facade" /\ Len(facade.calls) >= 2 /\ attempts[c] > 0) =>
            /\ attempts[c] <= maxRetries + 1
            /\ (pc[c] = "done" /\ IsRetriableReply(received[c])) =>
                  failures[c] = maxRetries + 1

\* The i-th request of the facade call has resolved with a response that
\* passes the validation of the call's type.
PathSucceeded(i) ==
    /\ outcome[facade.calls[i]].state = "fulfilled"
    /\ ZodIssues(SchemaOf(facade.type), outcome[facade.calls[i]].value, "") = <<>>

PathFailed(i) ==
    \/ outcome[facade.calls[i]].state = "rejected"
    \/ /\ outcome[facade.calls[i]].state = "fulfilled"
       /\ ZodIssues(SchemaOf(facade.type), outcome[facade.calls[i]].value, "") # <<>>

\* C4: a facade call resolves, with one record per path, only if every
\* request resolved and every response is valid; it holds no list at all
\* otherwise, it rejects as soon as a request has rejected, and it has
\* rejected once all requests resolved and some response is invalid.
C4_AllOrNothing ==
    LET n == Len(facade.calls)
    IN  /\ facade.state = "fulfilled" =>
              /\ Len(facade.value) = Len(facade.paths)
              /\ \A i \in 1..n : PathSucceeded(i)
        /\ facade.state # "fulfilled" => facade.value = <<>>
        /\ (\E i \in 1..n : PathFailed(i)) => facade.state # "fulfilled"
        /\ (\E i \in 1..n : outcome[facade.calls[i]].state = "rejected") =>
              facade.state = "rejected"
        /\ ((\A i \in 1..n : outcome[facade.calls[i]].state = "fulfilled")
            /\ (\E i \in 1..n : PathFailed(i))) => facade.state = "rejected"

C4_Witness ==
    /\ facade.state = "rejected"
    /\ Len(facade.calls) = 2
    /\ PathSucceeded(1)
    /\ outcome[facade.calls[2]].state = "fulfilled"
    /\ PathFailed(2)

\* C5: every failure of every public method of the client is an Error with
\* the message 'Unable to get downloads stats from the npm API' that carries
\* the original error as its cause.
C5_EveryFailureIsWrapped ==
    facade.state = "rejected" =>
        /\ facade.error[1].message = "Unable to get downloads stats from the npm API"
        /\ facade.error[1].cause # <<>>

\* C6: when the fetch of a call is answered with a status that is neither
\* 2xx nor retriable, the call fails in that same step, with no further
\* attempt (after exactly one attempt when it is the first answer), with
\* the message 'API endpoint returned status code <status>', and the
\* counter is 0.
C6_BadStatusFailsAtOnce ==
    [][\A c \in Calls :
          (pc[c] = "fetch" /\ pc'[c] # "fetch" /\ IsBadStatusReply(received'[c])) =>
              /\ pc'[c] = "done"
              /\ outcome'[c].state = "rejected"
              /\ outcome'[c].error[1].message =
                    "API endpoint returned status code " \o ToString(received'[c].status)
              /\ attempts'[c] = attempts[c]
              /\ failures[c] = 0 => attempts'[c] = 1
              /\ count' = 0]_vars

C6_Witness ==
    \E c \in Calls :
        /\ pc[c] = "done" /\ IsBadStatusReply(received[c])
        /\ received[c].status = 401
        /\ outcome[c].error[1].message = "API endpoint returned status code 401"
        /\ attempts[c] = 1
        /\ maxRetries > 0

\* C7: a call whose fetch was answered 2xx with a body that is no JSON makes
\* no further attempt, whatever is left of the retry budget, and fails with
\* 'API endpoint returned a non JSON response', which is neither the bad
\* status nor the max retries failure.
C7_NonJsonIsTerminal ==
    \A c \in Calls :
        IsNonJsonReply(received[c]) =>
            /\ pc[c] \in {"json", "done"}
            /\ attempts[c] = failures[c] + 1
            /\ pc[c] = "done" =>
                  /\ outcome[c].state = "rejected"
                  /\ outcome[c].error[1].message = "API endpoint returned a non JSON response"
                  /\ outcome[c].error[1] # BadStatusError(received[c].status)
                  /\ outcome[c].error[1] # MaxRetriesExceededError

C7_Witness ==
    \E c \in Calls :
        /\ pc[c] = "done" /\ IsNonJsonReply(received[c])
        /\ outcome[c].state = "rejected"
        /\ failures[c] < maxRetries
        /\ count < maxRetries

\* C8: an isolated call that began with the counter at 0 is retried after
\* each of its first k <= maxRetries retriable answers, and when attempt
\* k + 1 is answered 2xx with valid JSON it returns that JSON value after
\* exactly k + 1 attempts, the counter being 0 when the answer is handled
\* and when the call settles.
C8_SucceedsAfterRetries ==
    [][\A c \in Calls :
          isolated'[c] =>
              /\ (pc'[c] = "done" /\ IsRetriableReply(received'[c])) =>
                    failures'[c] = maxRetries + 1
              /\ IsJsonReply(received'[c]) =>
                    /\ failures'[c] <= maxRetries
                    /\ attempts'[c] = failures'[c] + 1
                    /\ pc'[c] \in {"json", "done"}
                    /\ pc'[c] = "done" => outcome'[c] = Fulfilled(received'[c].value)
                    /\ pc'[c] # pc[c] => count' = 0]_vars

C8_Witness ==
    \E c \in Calls :
        /\ isolated[c] /\ pc[c] = "done" /\ IsJsonReply(received[c])
        /\ outcome[c].state = "fulfilled"
        /\ maxRetries = MaxMaxRetries
        /\ failures[c] = maxRetries
        /\ attempts[c] = maxRetries + 1
        /\ count = 0

\* The permutations of 1..n.
IndexPermutations(n) == {f \in [1..n -> 1..n] : \A i, j \in 1..n : i # j => f[i] # f[j]}

\* The responses the request executor delivered to the facade call, in the
\* order of its paths.
DeliveredResponses == [i \in 1..Len(facade.calls) |-> outcome[facade.calls[i]].value]

\* C9 as stated: a successful facade call returns one record per package,
\* and the records are, in some order, the delivered responses themselves.
C9_ReturnsTheDeliveredResponses ==
    facade.state = "fulfilled" =>
        /\ Len(facade.value) = Len(facade.packages)
        /\ \E f \in IndexPermutations(Len(facade.value)) :
              \A i \in 1..Len(facade.value) : facade.value[i] = DeliveredResponses[f[i]]

\* The keys of a record of the given type, and of an item of a range
\* record's downloads.
RecordKeys == {"package", "downloads", "start", "end"}

ItemKeys == {"downloads", "day"}

\* Record r holds the keys of its type and nothing else, each with the
\* value response v has for it (for the downloads of a range record: item
\* by item, each item with its two keys).
IsRecordOf(r, v, type) ==
    /\ r.kind = "object"
    /\ DOMAIN r.members = RecordKeys
    /\ \A k \in RecordKeys \ {"downloads"} : r.members[k] = v.members[k]
    /\ IF type = "point"
       THEN r.members["downloads"] = v.members["downloads"]
       ELSE /\ r.members["downloads"].kind = "array"
            /\ DOMAIN r.members["downloads"].members = DOMAIN v.members["downloads"].members
            /\ \A x \in DOMAIN v.members["downloads"].members :
                  /\ DOMAIN r.members["downloads"].members[x].members = ItemKeys
                  /\ \A k \in ItemKeys :
                        r.members["downloads"].members[x].members[k]
                        = v.members["downloads"].members[x].members[k]

\* C9 as amended: a successful facade call returns one record per package,
\* every delivered response is valid, and the records are, in some order,
\* the delivered responses reduced to the keys of the schema.
C9_ReturnsTheValidatedRecords ==
    facade.state = "fulfilled" =>
        /\ Len(facade.value) = Len(facade.packages)
        /\ \A i \in 1..Len(facade.calls) : PathSucceeded(i)
        /\ \E f \in IndexPermutations(Len(facade.value)) :
              \A i \in 1..Len(facade.value) :
                  IsRecordOf(facade.value[i], DeliveredResponses[f[i]], facade.type)

C9_Witness ==
    /\ facade.state = "fulfilled"
    /\ Len(facade.packages) = 2
    /\ Len(facade.value) = 2
    /\ facade.value[1] # facade.value[2]
    /\ "extra" \in DOMAIN DeliveredResponses[2].members

\* The methods that build paths, the type each requests and the keyword of
\* the last-* methods.
RequestingOperations == Operations \ {"getMonth", "getDailyDownloadsForMonth"}

TypeOf(op) ==
    IF op \in {"getDailyDownloadsForLastMonth", "getDailyDownloadsForLastWeek",
               "getDailyDownloadsForWeek"}
    THEN "range" ELSE "point"

KeywordOf(op) ==
    CASE op = "getLastDay" -> "last-day"
      [] op \in {"getLastWeek", "getDailyDownloadsForLastWeek"} -> "last-week"
      [] op \in {"getLastMonth", "getDailyDownloadsForLastMonth"} -> "last-month"
      [] OTHER -> ""

Args == facade.args[1]

FacadeCalled(ops) == facade.state # "idle" /\ facade.op \in ops

\* The string names a day of the calendar.
IsCalendarDate(t) ==
    t.form = "iso-date" /\ t.month \in 1..12
    /\ t.day \in 1..(IF t.month = 2
                     THEN (IF t.year % 4 = 0 /\ (t.year % 100 # 0 \/ t.year % 400 = 0)
                           THEN 29 ELSE 28)
                     ELSE IF t.month \in {4, 6, 9, 11} THEN 30 ELSE 31)

\* 'Y-M-D' without padding.
Unpadded(y, m, d) == ToString(y) \o "-" \o ToString(m) \o "-" \o ToString(d)

\* The fragment the claim expects for a date string.
ExpectedFragment(t) == Unpadded(t.year, t.month, t.day)

\* Every path of the facade call is '/<type>/<when>/<package>'.
PathsAre(type, when) ==
    /\ Len(facade.paths) = Len(facade.packages)
    /\ \A i \in 1..Len(facade.paths) :
          facade.paths[i] = "/" \o type \o "/" \o when \o "/" \o facade.packages[i]

\* C11: for every date string 'YYYY-MM-DD' that names a calendar day, getDay
\* requests '/point/Y-M-D/<package>' for that very day, month and day
\* unpadded; getBetweenDates with two such strings requests
\* '/point/Y-M-D:Y-M-D/<package>' for those two days.
C11_WhenIsTheSuppliedDate ==
    /\ (FacadeCalled({"getDay"}) /\ IsCalendarDate(Args.date))
          => PathsAre("point", ExpectedFragment(Args.date))
    /\ (FacadeCalled({"getBetweenDates"}) /\ IsCalendarDate(Args.start)
        /\ IsCalendarDate(Args.end))
          => PathsAre("point", ExpectedFragment(Args.start) \o ":"
                               \o ExpectedFragment(Args.end))

WeekOperations == {"getWeek", "getDailyDownloadsForWeek"}

\* The Monday of ISO week w of year y, in days since 1970-01-01: the
\* Monday of the week that holds the 4th of January, plus w - 1 weeks.
IsoMonday(y, w) ==
    LET j == DaysFromCivil(y, 1, 4)
    IN  j - ((j + 3) % 7) + 7 * (w - 1)

\* A week value the claims call valid: a Date, a date string that names a
\* calendar day, or a week number 01..53 written with two digits, with or
\* without a year.
IsValidWeekValue(t) ==
    \/ t.form = "Date" /\ t.date.valid
    \/ IsCalendarDate(t)
    \/ t.form \in {"iso-week", "week"} /\ t.digits = 2 /\ t.week \in 1..53

\* The day a valid week value denotes in the zone z and the clock year y:
\* the local day of a Date, the day a date string names, the Monday of a
\* numbered week.
DenotedDay(t, z, y) ==
    CASE t.form = "Date" -> (t.date.time + z) \div 24
      [] t.form = "iso-date" -> DaysFromCivil(t.year, t.month, t.day)
      [] t.form = "iso-week" -> IsoMonday(t.year, t.week)
      [] t.form = "week" -> IsoMonday(y, t.week)

\* The first day of the week, begun on sow, that holds the day d.
FirstDayOfWeek(d, sow) ==
    IF sow = "sunday" THEN d - ((d + 4) % 7) ELSE d - ((d + 3) % 7)

\* Two valid week values denote the same calendar week under sow.
SameWeek(t, u, sow, z, y) ==
    FirstDayOfWeek(DenotedDay(t, z, y), sow) = FirstDayOfWeek(DenotedDay(u, z, y), sow)

DayOf(date) == (date.time + zone) \div 24

\* The range the same call resolves with the other startOfWeek.
WithStartOfWeek(sow) == Invoke(facade.op, [Args EXCEPT !.startOfWeek = sow]).descriptor[1]

\* Both boundaries of the sunday range lie d days after those of the
\* monday range.
SundayShift(d) ==
    LET s == WithStartOfWeek("sunday")
        m == WithStartOfWeek("monday")
    IN  /\ DayOf(s.startDate[1]) - DayOf(m.startDate[1]) = d
        /\ DayOf(s.endDate[1]) - DayOf(m.endDate[1]) = d

IsSunday(d) == (d + 4) % 7 = 0

\* C13: for every valid week value (a date of any weekday, or a week
\* number), the range resolved with startOfWeek sunday and the one resolved
\* with startOfWeek monday differ by exactly one day on both boundaries, in
\* the same direction.
C13_ShiftsByOneDay ==
    (FacadeCalled(WeekOperations) /\ IsValidWeekValue(Args.week)) =>
        (SundayShift(-1) \/ SundayShift(1))

\* C13, amended: for a valid week value whose day is not a Sunday the
\* sunday range is the monday range moved one day earlier on both
\* boundaries; for a value that falls on a Sunday the sunday range begins
\* on that day and is the monday range moved six days later.
C13_ShiftsByOneDayExceptOnSundays ==
    (FacadeCalled(WeekOperations) /\ IsValidWeekValue(Args.week)) =>
        IF IsSunday(DenotedDay(Args.week, zone, currentYear))
        THEN SundayShift(6)
        ELSE SundayShift(-1)

\* getWeek was called with a Sunday and startOfWeek sunday, and with a
\* Monday in another behaviour; here the Sunday.
C13_Witness ==
    /\ FacadeCalled({"getWeek"})
    /\ Args.week = IsoDateToken(2023, 5, 21)
    /\ Args.startOfWeek = "sunday"
    /\ facade.paths = <<"/point/2023-5-21:2023-5-27/@aws-lambda-powertools/logger">>
    /\ WithStartOfWeek("monday").startDate[1] = LocalMidnight(DaysFromCivil(2023, 5, 15), zone)

\* C14: for every valid week value and either startOfWeek, the resolved
\* range is 7 consecutive calendar days (the end date is the start date
\* plus 6 days), its first day is a Monday, or a Sunday when startOfWeek is
\* sunday, the day the value denotes lies inside it, and the requested
\* path names exactly these two days.
C14_SevenDaysFromTheWeekStart ==
    (FacadeCalled(WeekOperations) /\ IsValidWeekValue(Args.week)) =>
        LET r == facade.descriptor[1]
            first == DayOf(r.startDate[1])
            last == DayOf(r.endDate[1])
            input == DenotedDay(Args.week, zone, currentYear)
            a == CivilFromDays(first)
            b == CivilFromDays(last)
        IN  /\ r.startDate[1].valid /\ r.endDate[1].valid
            /\ last = first + 6
            /\ (first + 4) % 7 = (IF Args.startOfWeek = "sunday" THEN 0 ELSE 1)
            /\ first <= input /\ input <= last
            /\ PathsAre(IF facade.op = "getWeek" THEN "point" ELSE "range",
                        Unpadded(a.year, a.month, a.day) \o ":"
                        \o Unpadded(b.year, b.month, b.day))

\* getDailyDownloadsForWeek was called with a Date late on a Sunday and
\* startOfWeek monday, and requests the seven days that end on that Sunday.
C14_Witness ==
    /\ FacadeCalled({"getDailyDownloadsForWeek"})
    /\ Args.week = LocalTime(2024, 5, 19, 22, zone)
    /\ Args.startOfWeek = "monday"
    /\ facade.paths = <<"/range/2024-5-13:2024-5-19/@aws-lambda-powertools/logger">>

\* A week string that names no date: text that is no date and no week
\* number, a week number above 53, a day that its month does not have.
IsUnparsableWeekValue(t) ==
    \/ t.form = "invalid"
    \/ t.form \in {"iso-week", "week"} /\ t.week \notin 1..53
    \/ t.form = "iso-date" /\ ~IsCalendarDate(t)

\* C15: when the week string cannot be parsed into a valid date, getWeek
\* and getDailyDownloadsForWeek reject with a ValidationError and no
\* request is issued.
C15_UnparsableWeekIsRejected ==
    (FacadeCalled(WeekOperations) /\ IsUnparsableWeekValue(Args.week)) =>
        /\ facade.state = "rejected"
        /\ facade.error[1].name = "ValidationError"
        /\ facade.calls = <<>>
        /\ \A c \in Calls : owner[c] = "facade" => pc[c] = "idle"

MonthOperations == {"getMonth", "getDailyDownloadsForMonth"}

LastDayOfMonth(y, m) ==
    IF m = 2 THEN (IF y % 4 = 0 /\ (y % 100 # 0 \/ y % 400 = 0) THEN 29 ELSE 28)
    ELSE IF m \in {4, 6, 9, 11} THEN 30 ELSE 31

\* C17: getMonth and getDailyDownloadsForMonth take a month 'YYYY-MM',
\* 'MM' or 'M' (the current year when none is given) and request, per
\* package, '/point/Y-M-1:Y-M-<last day>/<package>' (respectively
\* '/range/...').
C17_MonthMethodsRequestTheMonth ==
    FacadeCalled(MonthOperations) =>
        LET y == IF Args.month.year = 0 THEN currentYear ELSE Args.month.year
            m == Args.month.month
        IN  /\ facade.state # "rejected" \/ facade.error[1].message # "Method not implemented."
            /\ PathsAre(IF facade.op = "getMonth" THEN "point" ELSE "range",
                        Unpadded(y, m, 1) \o ":" \o Unpadded(y, m, LastDayOfMonth(y, m)))

\* A week number 1..9 written with one digit, with or without a year.
IsOneDigitWeek(t) == t.form \in {"iso-week", "week"} /\ t.digits = 1 /\ t.week \in 1..9

\* C18: a week number written with one digit ('W1', '2023W1') is valid and
\* resolves to the week its two-digit form ('W01', '2023W01') resolves to,
\* in the current year when the year is left out: the Monday of that ISO
\* week and the six days after it, when the week starts on Monday.
C18_OneDigitWeeksResolve ==
    (FacadeCalled(WeekOperations) /\ IsOneDigitWeek(Args.week)) =>
        LET two == Invoke(facade.op, [Args EXCEPT !.week.digits = 2])
            r == facade.descriptor[1]
            y == IF Args.week.form = "week" THEN currentYear ELSE Args.week.year
        IN  /\ r.startDate[1].valid /\ r.endDate[1].valid
            /\ facade.paths = two.paths
            /\ Args.startOfWeek = "monday" =>
                  DayOf(r.startDate[1]) = IsoMonday(y, Args.week.week)

\* ---------------------------------------------------------- query claims
\* The calls of request() that were made with queryParams.
QueryCallsMade == {c \in Calls : pc[c] # "idle" /\ options[c].queryParams # <<>>}

ParamsOf(c) == options[c].queryParams[1]

\* The values C19 speaks of: null, undefined, natural numbers and strings
\* of letters, digits and '@'.
IsPlainValue(v) ==
    \/ v.type \in {"null", "undefined"}
    \/ v.type = "number" /\ v.number >= 0
    \/ v.type = "string" /\ \A i \in 1..Len(v.chars) : v.chars[i] \in AlphaNumerics \cup {"@"}

RECURSIVE Joined(_)
Joined(chars) == IF chars = <<>> THEN "" ELSE Head(chars) \o Joined(Tail(chars))

\* A plain value as the claim writes it: a number bare, a string with every
\* '@' as '%40'.
PlainText(v) ==
    IF v.type = "number" THEN ToString(v.number)
    ELSE Joined([i \in 1..Len(v.chars) |-> IF v.chars[i] = "@" THEN "%40" ELSE v.chars[i]])

\* 'key=value' of the entries that are neither null nor undefined, in
\* their order, joined with '&'.
RECURSIVE ExpectedQuery(_, _)
ExpectedQuery(params, text) ==
    IF params = <<>> THEN ""
    ELSE LET p == Head(params)
             rest == ExpectedQuery(Tail(params), text)
         IN  IF p.value.type \in {"null", "undefined"} THEN rest
             ELSE Joined(p.key) \o "=" \o text[p.value]
                  \o (IF rest = "" THEN "" ELSE "&") \o rest

\* C19: the query string of a request leaves out every key whose value is
\* null or undefined, keeps the other keys in their order, writes numbers
\* bare and '@' as '%40': {foo: 'bar@', baz: 1, bar: undefined} is fetched
\* as '/downloads?foo=bar%40&baz=1'.
C19_QueryOmitsNullishAndEscapes ==
    \A c \in QueryCallsMade :
        (\A i \in 1..Len(ParamsOf(c)) : IsPlainValue(ParamsOf(c)[i].value)) =>
            RequestUrl(options[c]) =
                "/downloads" \o options[c].path \o "?"
                \o ExpectedQuery(ParamsOf(c),
                                 [v \in {ParamsOf(c)[i].value : i \in 1..Len(ParamsOf(c))} |->
                                     PlainText(v)])

\* request() was called with {foo: 'bar@', baz: 1, bar: undefined} and
\* fetches '/downloads?foo=bar%40&baz=1'.
C19_Witness ==
    \E c \in QueryCallsMade :
        /\ ParamsOf(c) = <<Param(Foo, QString(<<"b", "a", "r", "@">>)), Param(Baz, QNumber(1)),
                           Param(Bar, QUndefined)>>
        /\ RequestUrl(options[c]) = "/downloads?foo=bar%40&baz=1"

\* A value as C20 writes it: a bigint as its digits, a plain value as C19
\* writes it.
ExactText(v) == IF v.type = "bigint" THEN Joined(v.chars) ELSE PlainText(v)

\* C20: a query parameter whose value is a bigint appears in the query
\* string as 'key=<its decimal digits>', beyond the safe integers too.
C20_BigIntIsSerialized ==
    \A c \in QueryCallsMade :
        (/\ \E i \in 1..Len(ParamsOf(c)) : ParamsOf(c)[i].value.type = "bigint"
         /\ \A i \in 1..Len(ParamsOf(c)) :
               IsPlainValue(ParamsOf(c)[i].value) \/ ParamsOf(c)[i].value.type = "bigint") =>
            RequestUrl(options[c]) =
                "/downloads" \o options[c].path \o "?"
                \o ExpectedQuery(ParamsOf(c),
                                 [v \in {ParamsOf(c)[i].value : i \in 1..Len(ParamsOf(c))} |->
                                     ExactText(v)])

\* The calls of request() that were made.
CallsMade == {c \in Calls : pc[c] # "idle"}

\* queryParams is absent, an empty mapping, or holds null and undefined
\* only.
HasNoParameters(opts) ==
    \/ opts.queryParams = <<>>
    \/ \A i \in 1..Len(opts.queryParams[1]) :
          opts.queryParams[1][i].value.type \in {"null", "undefined"}

\* C21: when queryParams is absent, is an empty mapping or holds only null
\* and undefined values, the URL that is fetched is the base path and the
\* path, with no '?' after them.
C21_NoQuestionMarkWithoutParameters ==
    \A c \in CallsMade :
        HasNoParameters(options[c]) =>
            RequestUrl(options[c]) = "/downloads" \o options[c].path

\* The character a '%XX' of the inputs stands for.
PercentDecoded(a, b) ==
    CASE a = "2" /\ b = "0" -> " "
      [] a = "2" /\ b = "5" -> "%"
      [] a = "2" /\ b = "6" -> "&"
      [] a = "2" /\ b = "B" -> "+"
      [] a = "2" /\ b = "F" -> "/"
      [] a = "3" /\ b = "A" -> ":"
      [] a = "3" /\ b = "D" -> "="
      [] a = "4" /\ b = "0" -> "@"

\* One URL decoding of a serialized value: '+' is a space and '%XX' the
\* character it stands for.
RECURSIVE UrlDecodedOnce(_)
UrlDecodedOnce(chars) ==
    IF chars = <<>> THEN <<>>
    ELSE IF Head(chars) = "%" /\ Len(chars) >= 3
    THEN <<PercentDecoded(chars[2], chars[3])>> \o UrlDecodedOnce(SubSeq(chars, 4, Len(chars)))
    ELSE IF Head(chars) = "+" THEN <<" ">> \o UrlDecodedOnce(Tail(chars))
    ELSE <<Head(chars)>> \o UrlDecodedOnce(Tail(chars))

\* C22: every string value of the query parameters is escaped exactly once:
\* decoding the value that is sent once gives the string back, for strings
\* with spaces, '%' and '@' too.
C22_StringsRoundTrip ==
    \A c \in QueryCallsMade :
        (\A i \in 1..Len(ParamsOf(c)) : ParamsOf(c)[i].value.type = "string") =>
            LET sent == serializeQueryParams(ParamsOf(c))
            IN  /\ Len(sent) = Len(ParamsOf(c))
                /\ \A i \in 1..Len(sent) :
                      UrlDecodedOnce(UrlEncoded(sent[i].value)) = ParamsOf(c)[i].value.chars

\* ---------------------------------------------------------- shape claims
HasField(v, f, kind) == f \in DOMAIN v.members /\ v.members[f].kind = kind

\* The paths of the fields of an object record that are missing or of the
\* wrong type, for the point shape and for the range shape.
OffendingStrings(v) == {f \in {"package", "start", "end"} : ~HasField(v, f, "string")}

OffendingItems(list) ==
    UNION {LET item == list.members[k]
           IN  IF item.kind # "object" THEN {"downloads." \o k}
               ELSE {"downloads." \o k \o "." \o f[1] :
                        f \in {g \in {<<"downloads", "number">>, <<"day", "string">>} :
                                  ~HasField(item, g[1], g[2])}} :
           k \in DOMAIN list.members}

OffendingFields(v, type) ==
    OffendingStrings(v)
    \cup (IF type = "point"
          THEN (IF HasField(v, "downloads", "number") THEN {} ELSE {"downloads"})
          ELSE IF HasField(v, "downloads", "array")
          THEN OffendingItems(v.members["downloads"])
          ELSE {"downloads"})

\* The value has the shape of the type: an object without offending fields.
HasShape(v, type) == v.kind = "object" /\ OffendingFields(v, type) = {}

\* Every request of the facade call has delivered its response.
AllDelivered ==
    /\ facade.state # "idle"
    /\ facade.calls # <<>>
    /\ \A i \in 1..Len(facade.calls) : outcome[facade.calls[i]].state = "fulfilled"

\* The first delivered response that has not the shape of the method's type.
FirstMisshapen ==
    LET bad == {i \in 1..Len(facade.calls) :
                   ~HasShape(DeliveredResponses[i], TypeOf(facade.op))}
    IN  DeliveredResponses[CHOOSE i \in bad : \A j \in bad : i <= j]

\* C23: when a delivered response fails validation, the facade call rejects
\* with its wrapping error whose cause is a ValidationError, and for an
\* object record the ValidationError lists exactly one issue for every
\* missing or mistyped field, all of them.
C23_EveryOffendingFieldIsListed ==
    (AllDelivered
     /\ \E i \in 1..Len(facade.calls) : ~HasShape(DeliveredResponses[i], TypeOf(facade.op))) =>
        /\ facade.state = "rejected"
        /\ facade.error[1].message = "Unable to get downloads stats from the npm API"
        /\ facade.error[1].cause # <<>>
        /\ LET e == facade.error[1].cause[1]
               v == FirstMisshapen
           IN  /\ e.name = "ValidationError"
               /\ e.message = "Object shape is not valid."
               /\ Len(e.issues) >= 1
               /\ v.kind = "object" =>
                     /\ {e.issues[k].path : k \in 1..Len(e.issues)}
                            = OffendingFields(v, TypeOf(facade.op))
                     /\ Len(e.issues) = Cardinality(OffendingFields(v, TypeOf(facade.op)))

\* A point method received a record without package, with a string for
\* downloads and a number for end, and its ValidationError lists the three
\* fields.
C23_Witness ==
    /\ AllDelivered
    /\ TypeOf(facade.op) = "point"
    /\ facade.state = "rejected"
    /\ OffendingFields(DeliveredResponses[1], "point") = {"package", "downloads", "end"}
    /\ Len(facade.error[1].cause[1].issues) = 3

\* C24: a delivered body is accepted exactly when it is an object with
\* package, start and end strings and downloads a number (point methods) or
\* a list of {downloads: number, day: string} (getDailyDownloadsFor*
\* methods): the call fulfils when every body has the shape of its method's
\* type and otherwise rejects with a ValidationError as cause, so a point
\* body is rejected by a range method and a range body by a point method.
C24_AcceptsExactlyTheShapeOfTheType ==
    AllDelivered =>
        IF \A i \in 1..Len(facade.calls) : HasShape(DeliveredResponses[i], TypeOf(facade.op))
        THEN /\ facade.state = "fulfilled"
             /\ Len(facade.value) = Len(facade.calls)
        ELSE /\ facade.state = "rejected"
             /\ facade.error[1].cause[1].name = "ValidationError"

\* A range method received a well-formed point record and rejected it.
C24_Witness ==
    /\ AllDelivered
    /\ facade.op = "getDailyDownloadsForLastWeek"
    /\ HasShape(DeliveredResponses[1], "point")
    /\ facade.state = "rejected"
    /\ facade.error[1].cause[1].issues[1].path = "downloads"

\* A start or end value the claims call valid: a Date or a date string that
\* names a calendar day.
IsValidDateValue(t) == (t.form = "Date" /\ t.date.valid) \/ IsCalendarDate(t)

\* 'Y-M-D' of the calendar day a valid value denotes in the process's zone.
FragmentOf(t) ==
    LET d == CivilFromDays(DenotedDay(t, zone, currentYear))
    IN  Unpadded(d.year, d.month, d.day)

C26_AttemptsAreBounded ==
    \A c \in Calls : attempts[c] <= maxRetries + 1

\* C27: the step in which a facade call with N paths begins issues all N
\* requests, the i-th for the i-th path, each in flight with its first
\* fetch and none settled; so no request of the call waits for another to
\* complete.
C27_AllRequestsDispatchedAtOnce ==
    [][(facade.state = "idle" /\ facade'.state = "pending") =>
          /\ Len(facade'.calls) = Len(facade'.paths)
          /\ \A i \in 1..Len(facade'.calls) :
                LET c == facade'.calls[i]
                IN  /\ pc[c] = "idle" /\ pc'[c] = "fetch"
                    /\ attempts'[c] = 1
                    /\ outcome'[c].state = "pending"
                    /\ options'[c].path = facade'.paths[i]
          /\ \A i, j \in 1..Len(facade'.calls) : i # j => facade'.calls[i] # facade'.calls[j]]_vars

\* A facade call with two paths has both requests in flight, each at its
\* first fetch.
C27_Witness ==
    /\ facade.state = "pending"
    /\ Len(facade.calls) = 2
    /\ \A i \in 1..2 : pc[facade.calls[i]] = "fetch" /\ attempts[facade.calls[i]] = 1

\* The calls of request() the facade call made.
FacadeCalls == {facade.calls[i] : i \in 1..Len(facade.calls)}

\* C28: the step in which the first request of a pending facade call
\* rejects also rejects the facade call, with the wrapping error whose
\* cause is that request's error, while its other requests may still be in
\* flight or in a retry delay; what they do later changes nothing of the
\* rejection.
C28_FailsFastOnTheFirstFailure ==
    [][/\ \A c \in FacadeCalls :
             (facade.state = "pending" /\ outcome[c].state = "pending"
              /\ outcome'[c].state = "rejected") =>
                 /\ facade'.state = "rejected"
                 /\ facade'.error[1].message = "Unable to get downloads stats from the npm API"
                 /\ facade'.error[1].cause = outcome'[c].error
       /\ facade.state = "rejected" => facade' = facade]_vars

\* The facade call has rejected with the failure of one request while
\* another of its requests still waits for its retry delay.
C28_Witness ==
    /\ facade.state = "rejected"
    /\ \E c, d \in FacadeCalls :
          /\ outcome[c].state = "rejected"
          /\ facade.error[1].cause = outcome[c].error
          /\ pc[d] = "wait"

\* C29: when the fetch of an attempt throws (a transport failure, no
\* response at all), request() rejects in that step with the error that was
\* thrown, whatever is left of the retry budget, and makes no further
\* attempt afterwards.
C29_TransportFailureIsNotRetried ==
    [][\A c \in Calls :
          /\ (pc[c] = "fetch" /\ pc'[c] # "fetch" /\ received'[c].kind = "throw") =>
                /\ pc'[c] = "done"
                /\ outcome'[c].state = "rejected"
                /\ outcome'[c].error = <<[name |-> "TypeError", message |-> "fetch failed",
                                          issues |-> <<>>, cause |-> <<>>]>>
                /\ attempts'[c] = attempts[c]
          /\ (pc[c] = "done" /\ received[c].kind = "throw") =>
                (pc'[c] = "done" /\ attempts'[c] = attempts[c]
                 /\ outcome'[c] = outcome[c])]_vars

\* The fetch of the first attempt of a call threw while the counter was
\* below the bound, and the call has rejected after that one attempt.
C29_Witness ==
    \E c \in Calls :
        /\ pc[c] = "done"
        /\ received[c].kind = "throw"
        /\ attempts[c] = 1
        /\ count < maxRetries
        /\ outcome[c].state = "rejected"

\* C30: the step that begins a retry re-issues the request of the attempt
\* before it: the options of the call (path, method, query parameters and
\* body), and so the URL that is fetched, are the same, and the step
\* changes nothing but the position and the attempt count of the call.
C30_RetryReissuesTheSameRequest ==
    [][\A c \in Calls :
          (pc[c] = "wait" /\ pc'[c] = "fetch") =>
              /\ options'[c] = options[c]
              /\ RequestUrl(options'[c]) = RequestUrl(options[c])
              /\ attempts'[c] = attempts[c] + 1
              /\ UNCHANGED <<maxRetries, count, options, response, received, outcome,
                             owner, facade>>]_vars

\* A call with query parameters is at the fetch of its second attempt.
C30_Witness ==
    \E c \in Calls :
        /\ pc[c] = "fetch"
        /\ attempts[c] = 2
        /\ options[c].queryParams # <<>>
        /\ RequestUrl(options[c]) = "/downloads?foo=bar%40&baz=1"

\* ------------------------------------------------------ waits and descriptors
\* The number of waits call c has behind it or is in: one after each attempt
\* but the last, and one more while it waits.
WaitsDue(c) ==
    IF attempts[c] = 0 THEN 0
    ELSE IF pc[c] = "wait" THEN attempts[c] ELSE attempts[c] - 1

\* C31: every retry is preceded by exactly one wait of the configured
\* delay, the same for every retry: a call waits only after a retriable
\* status, each of its waits lasts the configured delay, it has made one
\* wait per attempt after the first, none before its first attempt and none
\* after the answer that settled it.
C31_OneFixedWaitPerRetry ==
    \A c \in Calls :
        /\ Len(timers[c]) = WaitsDue(c)
        /\ \A i \in 1..Len(timers[c]) : timers[c][i] = delay
        /\ pc[c] = "wait" => IsRetriableReply(received[c])
        /\ (attempts[c] = 1 /\ pc[c] = "fetch") => timers[c] = <<>>
        /\ pc[c] = "done" => Len(timers[c]) = attempts[c] - 1

C31_Witness ==
    \E c \in Calls :
        /\ pc[c] = "done"
        /\ outcome[c].state = "rejected"
        /\ outcome[c].error[1].message = MaxRetriesExceededMessage
        /\ delay = 2500
        /\ timers[c] = <<2500, 2500>>
        /\ attempts[c] = 3

\* The variants of a period descriptor that are populated.
PopulatedVariants(d) ==
    (IF d.keyword # "" THEN {"keyword"} ELSE {})
    \cup (IF d.date # <<>> THEN {"date"} ELSE {})
    \cup (IF d.startDate # <<>> /\ d.endDate # <<>> THEN {"range"} ELSE {})

\* No field of a variant is set on its own (a start without an end).
NoHalfVariant(d) == (d.startDate = <<>>) = (d.endDate = <<>>)

\* 'Y-M-D' of the local calendar day of a Date, 'NaN-NaN-NaN' of an Invalid
\* Date.
DayText(date, z) ==
    IF date.valid
    THEN LET d == CivilFromDays((date.time + z) \div 24)
         IN  Unpadded(d.year, d.month, d.day)
    ELSE "NaN-NaN-NaN"

\* The when segment that the one populated variant stands for.
WhenOfVariant(d, z) ==
    IF PopulatedVariants(d) = {"keyword"} THEN d.keyword
    ELSE IF PopulatedVariants(d) = {"date"} THEN DayText(d.date[1], z)
    ELSE DayText(d.startDate[1], z) \o ":" \o DayText(d.endDate[1], z)

FacadeSettled == facade.state \in {"fulfilled", "rejected"}

\* C33: when every attempt is answered or throws, a facade call settles,
\* and so does each of its N requests, whatever the answers are: no request
\* is retried for ever.
C33_FacadeCallTerminates ==
    /\ (facade.state = "pending") ~> FacadeSettled
    /\ \A c \in Calls : Active(c) ~> (pc[c] = "done")

C33_Witness ==
    /\ FacadeSettled
    /\ Len(facade.calls) = 2
    /\ \A c \in Calls : pc[c] = "done"
    /\ maxRetries = 1
    /\ \E c \in Calls : attempts[c] = 3

\* ------------------------------------------------------- the shared counter
\* C34: in every state of the service, under every interleaving of calls of
\* request(), the attempt counter is at least 0 and at most maxRetries.
C34_CounterWithinBounds == 0 <= count /\ count <= maxRetries

C34_Witness ==
    /\ maxRetries = MaxMaxRetries
    /\ count = maxRetries
    /\ \A c \in Calls : pc[c] = "wait" /\ attempts[c] = 1

\* C35: of calls of request() that do not overlap, one whose every attempt
\* is answered with a retriable status makes exactly maxRetries + 1
\* attempts before it fails, however the calls before it ended.
C35_BudgetIsHistoryIndependent ==
    \A c \in Calls :
        (sequential[c] /\ OnlyRetriableAnswers(c)) =>
            /\ attempts[c] <= maxRetries + 1
            /\ pc[c] = "done" => attempts[c] = maxRetries + 1

\* ------------------------------------------------- validation and order
\* The requests of the facade call that have failed.
FailedRequests ==
    {i \in 1..Len(facade.calls) : outcome[facade.calls[i]].state = "rejected"}

\* The cause the facade's error wraps, when the facade call has rejected
\* after its dispatch.
WrappedCause == facade.error[1].cause[1]

\* C36: no response of a facade call is validated before all its requests
\* have resolved: the wrapped cause is a ValidationError only when every
\* request has resolved (no attempt is then left to make), and once a
\* request has failed the call has rejected with the failure of a request
\* as its cause, a malformed response received before it notwithstanding.
C36_ValidationFollowsAllRequests ==
    (facade.calls # <<>> /\ facade.state = "rejected") =>
        /\ WrappedCause.name = "ValidationError" =>
              /\ \A i \in 1..Len(facade.calls) :
                    /\ outcome[facade.calls[i]].state = "fulfilled"
                    /\ pc[facade.calls[i]] = "done"
              /\ FailedRequests = {}
        /\ FailedRequests # {} =>
              /\ WrappedCause.name # "ValidationError"
              /\ \E i \in FailedRequests : WrappedCause = outcome[facade.calls[i]].error[1]

C36_Witness ==
    /\ facade.state = "rejected"
    /\ Len(facade.calls) = 2
    /\ facade.order = facade.calls
    /\ PathFailed(1)
    /\ outcome[facade.calls[1]].state = "fulfilled"
    /\ FailedRequests = {2}
    /\ WrappedCause = MaxRetriesExceededError

\* The record the validation makes of the body that the i-th request of
\* the facade call was answered with.
RecordOf(i) == ZodOutput(SchemaOf(facade.type), received[facade.calls[i]].value)

\* C37: the list a facade call resolves with is in the order of the
\* request: its i-th record is the validated response to the path built for
\* the i-th package, in whatever order the requests completed.
C37_ResultsInRequestOrder ==
    facade.state = "fulfilled" =>
        /\ Len(facade.value) = Len(facade.packages)
        /\ Len(facade.calls) = Len(facade.packages)
        /\ \A i \in 1..Len(facade.packages) :
              /\ options[facade.calls[i]].path = facade.paths[i]
              /\ facade.paths[i] =
                    "/" \o facade.type \o "/"
                    \o WhenOfVariant(facade.descriptor[1], zone)
                    \o "/" \o facade.packages[i]
              /\ facade.value[i] = RecordOf(i)

C37_Witness ==
    /\ facade.state = "fulfilled"
    /\ Len(facade.calls) = 2
    /\ facade.order = <<facade.calls[2], facade.calls[1]>>
    /\ facade.value[1] # facade.value[2]
    /\ Get(facade.value[1], "package") = JString("@aws-lambda-powertools/logger")

\* ----------------------------------------------------------------- origins
\* C38: every fetch of the service is sent to the origin the service was
\* constructed with, whatever other services or clients are constructed in
\* the process afterwards.
C38_RequestsGoToTheConfiguredOrigin ==
    \A c \in Calls : attempts[c] > 0 => sentTo[c] = configured

====
